---- MODULE Spec2Model ----
(***************************************************************************)
(* Model of the segment cache of the log ingestion service:                *)
(*   - the range algebra of cache_index.py (half-open ranges [s, e)),      *)
(*   - the streaming segment writer of service.py,                         *)
(*   - the cache orchestrator LogIngestionService.run of service.py.       *)
(***************************************************************************)
EXTENDS Integers, Sequences, FiniteSets, TLC

\* ------------------------------------------------------------------------
\* Bounds of the model
\* ------------------------------------------------------------------------
\* time points of the orchestrator are 0 .. MaxT, a range <<s, e>> means [s, e)
MaxT == 3
\* time points of the range algebra calls are 0 .. MaxR
MaxR == 4
\* longest list of cached ranges handed to the range algebra
MaxCached == 2

\* runs of the service that one behaviour holds
MaxRuns == 3
\* largest flush_rows a configuration holds (config.py keeps flush_rows >= 1)
MaxFlush == 2
\* most events one write of the writer specification receives
MaxWEvents == 3

\* Python's None for an optional integer
None == -1

Max(a, b) == IF a >= b THEN a ELSE b
Min(a, b) == IF a <= b THEN a ELSE b

TimePoints == 0 .. MaxT
RangePoints == 0 .. MaxR
\* every pair of range-algebra points, valid (e > s) or not
AnyRange == RangePoints \X RangePoints

\* points covered by the half-open range r (none when r is invalid)
PointsOf(r) == {t \in 0 .. Max(MaxT, MaxR) : r[1] <= t /\ t < r[2]}

\* ------------------------------------------------------------------------
\* cache_index.py: range algebra
\* ------------------------------------------------------------------------
\* tuple comparison of Python's sorted(): lexicographic on (start, end)
TupleLess(a, b) == a[1] < b[1] \/ (a[1] = b[1] /\ a[2] < b[2])

RECURSIVE InsertSorted(_, _)
InsertSorted(r, sorted) ==
    IF sorted = <<>> THEN <<r>>
    ELSE IF TupleLess(r, Head(sorted)) THEN <<r>> \o sorted
    ELSE <<Head(sorted)>> \o InsertSorted(r, Tail(sorted))

RECURSIVE SortRanges(_)
SortRanges(ranges) ==
    IF ranges = <<>> THEN <<>>
    ELSE InsertSorted(Head(ranges), SortRanges(Tail(ranges)))

\* MergeStep merging only ranges that overlap, not ranges that touch
MergeStepOverlapOnly(merged, r) ==
    IF r[2] <= r[1] THEN merged
    ELSE IF merged = <<>> THEN <<r>>
    ELSE LET last == merged[Len(merged)]
         IN  IF r[1] < last[2]
             THEN [merged EXCEPT ![Len(merged)] = <<last[1], Max(last[2], r[2])>>]
             ELSE Append(merged, r)

\* one iteration of the merge loop of _normalize_ranges
MergeStep(merged, r) ==
    IF r[2] <= r[1] THEN merged
    ELSE IF merged = <<>> THEN <<r>>
    ELSE LET last == merged[Len(merged)]
         IN  IF r[1] <= last[2]
             THEN [merged EXCEPT ![Len(merged)] = <<last[1], Max(last[2], r[2])>>]
             ELSE Append(merged, r)

RECURSIVE MergeLoop(_, _)
MergeLoop(merged, rest) ==
    IF rest = <<>> THEN merged
    ELSE MergeLoop(MergeStep(merged, Head(rest)), Tail(rest))

normalize_ranges(ranges) == MergeLoop(<<>>, SortRanges(ranges))

\* WalkStep with the off-by-one "s >= cursor" in the gap test
WalkStepEmptyGap(st, r, rs, re) ==
    IF st.stop THEN st
    ELSE IF r[2] <= rs THEN st
    ELSE IF r[1] >= re THEN [st EXCEPT !.stop = TRUE]
    ELSE LET s == Max(r[1], rs)
             e == Min(r[2], re)
             m == IF s >= st.cursor THEN Append(st.missing, <<st.cursor, s>>)
                  ELSE st.missing
             c == Max(st.cursor, e)
         IN  [missing |-> m, cursor |-> c, stop |-> (c >= re)]

\* the walk of compute_missing_subranges over the normalized ranges;
\* st = [missing, cursor, stop]
WalkStep(st, r, rs, re) ==
    IF st.stop THEN st
    ELSE IF r[2] <= rs THEN st
    ELSE IF r[1] >= re THEN [st EXCEPT !.stop = TRUE]
    ELSE LET s == Max(r[1], rs)
             e == Min(r[2], re)
             m == IF s > st.cursor THEN Append(st.missing, <<st.cursor, s>>)
                  ELSE st.missing
             c == Max(st.cursor, e)
         IN  [missing |-> m, cursor |-> c, stop |-> (c >= re)]

RECURSIVE WalkLoop(_, _, _, _)
WalkLoop(st, rest, rs, re) ==
    IF rest = <<>> THEN st
    ELSE WalkLoop(WalkStep(st, Head(rest), rs, re), Tail(rest), rs, re)

\* compute_missing_subranges without the gap after the last cached range
compute_missing_subranges_NoTail(rs, re, cached) ==
    WalkLoop([missing |-> <<>>, cursor |-> rs, stop |-> FALSE],
             normalize_ranges(cached), rs, re).missing

\* compute_missing_subranges for a valid window (requested_end > requested_start)
compute_missing_subranges(rs, re, cached) ==
    LET st == WalkLoop([missing |-> <<>>, cursor |-> rs, stop |-> FALSE],
                       normalize_ranges(cached), rs, re)
    IN  IF st.cursor < re THEN Append(st.missing, <<st.cursor, re>>)
        ELSE st.missing


\* ------------------------------------------------------------------------
\* service.py: events and the de-duplication key
\* ------------------------------------------------------------------------
\* a Python str is a sequence of characters; an optional str is [some, v]
NoStr == [some |-> FALSE, v |-> <<>>]
Some(s) == [some |-> TRUE, v |-> s]

Digits == <<"0", "1", "2", "3", "4", "5", "6", "7", "8", "9">>

\* str(n) of a natural number, as the f-string formats it
RECURSIVE IntToStr(_)
IntToStr(n) ==
    IF n < 10 THEN <<Digits[n + 1]>>
    ELSE IntToStr(n \div 10) \o <<Digits[(n % 10) + 1]>>

\* an event is a dict with the optional fields the writer reads
Event(log_id, seq_str, seq_num, ts) ==
    [log_id |-> log_id, sequence_number_str |-> seq_str,
     sequence_number |-> seq_num, timestamp |-> ts]

\* seq = ev.get("sequence_number_str"), falling back to ev.get("sequence_number")
EventSeq(ev) ==
    IF ev.sequence_number_str.some THEN ev.sequence_number_str
    ELSE IF ev.sequence_number # None THEN Some(IntToStr(ev.sequence_number))
    ELSE NoStr

\* _event_dedupe_key: f"{log_id}:{seq}", or None when either field is missing
event_dedupe_key(ev) ==
    IF ~ev.log_id.some \/ ~EventSeq(ev).some THEN NoStr
    ELSE Some(ev.log_id.v \o <<":">> \o EventSeq(ev).v)

\* ------------------------------------------------------------------------
\* Segment store: a segment directory is the sequence of its part files,
\* part-00000 first, each part the rows written to it; <<>> is "no directory"
\* ------------------------------------------------------------------------
\* ParquetWriter.write_part(df, segment_dir, part_idx): creates the directory
\* when needed and writes part file number part_idx, replacing a file of that name
write_part(parts, part_idx, rows) ==
    IF part_idx + 1 <= Len(parts) THEN [parts EXCEPT ![part_idx + 1] = rows]
    ELSE Append(parts, rows)

RECURSIVE Flatten(_)
Flatten(seqs) == IF seqs = <<>> THEN <<>> ELSE Head(seqs) \o Flatten(Tail(seqs))

\* dataset.count_rows() of a segment directory
count_rows(parts) == Len(Flatten(parts))

\* ------------------------------------------------------------------------
\* service.py: _write_events_streaming_to_cache_segment
\* ------------------------------------------------------------------------
\* the "if not page_events: continue" of the page loop
RECURSIVE DropEmptyPages(_)
DropEmptyPages(pages) ==
    IF pages = <<>> THEN <<>>
    ELSE IF Head(pages) = <<>> THEN DropEmptyPages(Tail(pages))
    ELSE pages

\* the locals of one call, before the page loop
WriterStart(seg, pages) ==
    [pc |-> "loop", seg |-> seg, pages |-> pages, buffer |-> <<>>,
     rows_processed |-> 0, part_idx |-> 0, seen_keys |-> {},
     duplicates_dropped |-> 0, raw_events_seen |-> 0,
     observed_min_ts_ms |-> None, observed_max_ts_ms |-> None]

WriterIdle == [WriterStart(<<0, 0>>, <<>>) EXCEPT !.pc = "idle"]

\* no second run
PeerIdle == [w |-> WriterIdle, win |-> <<>>]

\* the body of "for ev in page_events" up to the flush test, for the next event:
\* the writer's locals after it
AcceptEvent(wr, conf) ==
    LET ps   == DropEmptyPages(wr.pages)
        ev   == Head(Head(ps))
        rest == <<Tail(Head(ps))>> \o Tail(ps)
        key  == event_dedupe_key(ev)
        ts   == ev.timestamp
        seen == [wr EXCEPT !.pages = rest,
                           !.raw_events_seen = @ + 1,
                           !.observed_min_ts_ms =
                               IF ts = None THEN @ ELSE IF @ = None THEN ts ELSE Min(@, ts),
                           !.observed_max_ts_ms =
                               IF ts = None THEN @ ELSE IF @ = None THEN ts ELSE Max(@, ts)]
    IN  IF conf.dedupe_events /\ key.some /\ key.v \in wr.seen_keys
        THEN [seen EXCEPT !.duplicates_dropped = @ + 1]
        ELSE [seen EXCEPT !.seen_keys =
                              IF conf.dedupe_events /\ key.some THEN @ \cup {key.v} ELSE @,
                          !.buffer = Append(@, ev),
                          !.rows_processed = @ + 1]

\* the flush test firing after every accepted event
FlushDueEveryEvent(wr, conf) == Len(wr.buffer) >= 1

\* the flush test firing only above the threshold
FlushDueAboveThreshold(wr, conf) == Len(wr.buffer) > conf.flush_rows

\* "if len(buffer) >= self.config.flush_rows"
FlushDue(wr, conf) == Len(wr.buffer) >= conf.flush_rows

\* the writer's return value (dataset_path, rows_processed, parts_written, stats)
WriterReturn(wr) ==
    [dir |-> wr.rows_processed # 0,
     rows_processed |-> wr.rows_processed,
     parts_written |-> IF wr.rows_processed = 0 THEN 0 ELSE wr.part_idx,
     raw_events_seen |-> wr.raw_events_seen,
     duplicates_dropped |-> wr.duplicates_dropped]

\* ------------------------------------------------------------------------
\* cache_index.py: the segment store seen by the orchestrator
\* ------------------------------------------------------------------------
\* the ranges of a set as the list sorted by (start_ms, end_ms)
RECURSIVE SortedList(_)
SortedList(S) ==
    IF S = {} THEN <<>>
    ELSE LET r == CHOOSE x \in S : \A y \in S : x = y \/ TupleLess(x, y)
         IN  <<r>> \o SortedList(S \ {r})

\* list_segments: the to= directories that exist, with end_ms > start_ms, sorted
list_segments(d) == SortedList({r \in DOMAIN d : d[r] # <<>> /\ r[2] > r[1]})

\* an overlap test passing only the segments that lie inside the window
OverlapsWithin(seg, rs, re) == rs <= seg[1] /\ seg[2] <= re

\* the overlap test "seg.start_ms < requested_end_ms and seg.end_ms > requested_start_ms"
Overlaps(seg, rs, re) == seg[1] < re /\ seg[2] > rs

\* ------------------------------------------------------------------------
\* service.py: _compute_cache_decision and _read_cached_segments
\* ------------------------------------------------------------------------
RECURSIVE ClipRanges(_, _, _)
ClipRanges(ranges, rs, re) ==
    IF ranges = <<>> THEN <<>>
    ELSE LET s2 == Max(Head(ranges)[1], rs)
             e2 == Min(Head(ranges)[2], re)
         IN  (IF e2 > s2 THEN <<(<<s2, e2>>)>> ELSE <<>>) \o ClipRanges(Tail(ranges), rs, re)

\* a decision that takes the window for cached as soon as one segment overlaps it
compute_cache_decision_AnyOverlapHits(d, rs, re) ==
    LET segments_used == SelectSeq(list_segments(d), LAMBDA seg : Overlaps(seg, rs, re))
    IN  IF segments_used = <<>>
        THEN [decision |-> "miss", missing_ranges |-> <<(<<rs, re>>)>>, segments_used |-> <<>>]
        ELSE [decision |-> "hit", missing_ranges |-> <<>>, segments_used |-> segments_used]

\* _compute_cache_decision with bypass_cache off
compute_cache_decision(d, rs, re) ==
    LET segments_used == SelectSeq(list_segments(d), LAMBDA seg : Overlaps(seg, rs, re))
        missing_ranges == compute_missing_subranges(rs, re, ClipRanges(segments_used, rs, re))
    IN  IF segments_used = <<>>
        THEN [decision |-> "miss", missing_ranges |-> <<(<<rs, re>>)>>, segments_used |-> <<>>]
        ELSE [decision |-> IF missing_ranges = <<>> THEN "hit" ELSE "partial",
              missing_ranges |-> missing_ranges,
              segments_used |-> segments_used]

\* _read_cached_segments: (total_rows, segment_dirs)
RECURSIVE SumRows(_, _)
SumRows(d, segs) ==
    IF segs = <<>> THEN 0 ELSE count_rows(d[Head(segs)]) + SumRows(d, Tail(segs))

read_cached_segments(d, segs) == [total_rows |-> SumRows(d, segs), segment_dirs |-> segs]

\* "dataset = ds.dataset(seg.path, ...)" raises for one of the segments read:
\* bad is the segment that cannot be opened (<<>> when every one can)
ReadFails(segs, bad) == \E i \in 1 .. Len(segs) : segs[i] = bad

\* the segments a run of [rs, re) can find unreadable: none, or one of those
\* overlapping its window
UnreadableChoices(d, rs, re) ==
    {<<>>} \cup {seg \in DOMAIN d : d[seg] # <<>> /\ Overlaps(seg, rs, re)}

\* ------------------------------------------------------------------------
\* service.py: LogIngestionService.run, its locals and its results
\* ------------------------------------------------------------------------
RunIdle ==
    [pc |-> "idle", bypass |-> FALSE, rs |-> 0, re |-> 0, decision |-> "none",
     missing_ranges |-> <<>>, idx |-> 0, segments_used |-> <<>>,
     segments_to_count |-> <<>>, fetched_rows |-> 0, empty_subranges |-> 0,
     pages_payloads_seen |-> 0, fetched_subranges |-> 0, parts_written_total |-> 0,
     raw_events_seen |-> 0, duplicates_dropped |-> 0, bound |-> {}]

NoResult ==
    [status |-> "none", error |-> "", decision |-> "none", rs |-> 0, re |-> 0,
     rows_processed |-> None, cache_hit |-> FALSE, cache_partial |-> FALSE,
     segments_used |-> None, raw_events_seen |-> None, duplicates_dropped |-> None,
     output_file |-> <<>>]

\* the run ends in "except Exception: ... raise", or the process is interrupted
Failed(r, status, error) ==
    [NoResult EXCEPT !.status = status, !.error = error, !.decision = r.decision,
                     !.rs = r.rs, !.re = r.re]

\* the first of the segment directories dirs, <<>> standing for None
FirstDir(dirs) == IF dirs # <<>> THEN Head(dirs) ELSE <<>>

\* a result dict the run returns
Returned(r, rows, hit, partial, segs, raw, dups, out) ==
    [status |-> "returned", error |-> "", decision |-> r.decision, rs |-> r.rs, re |-> r.re,
     rows_processed |-> rows, cache_hit |-> hit, cache_partial |-> partial,
     segments_used |-> segs, raw_events_seen |-> raw, duplicates_dropped |-> dups,
     output_file |-> out]

\* the call _emit_run_summary(..., cache_segments=list(segments_used),
\* dataset_dirs=final_dirs) followed by "return result": reading a local of run
\* that no statement has assigned yet raises UnboundLocalError
EmitSummaryAndReturn(r, res) ==
    IF {"segments_used", "final_dirs"} \subseteq r.bound THEN res
    ELSE Failed(r, "raised", "UnboundLocalError")

\* the cache-hit branch of run
HitResult(r, d) ==
    LET rd == read_cached_segments(d, r.segments_used)
    IN  EmitSummaryAndReturn(r,
            Returned(r, rd.total_rows, TRUE, FALSE, Len(rd.segment_dirs), None, None,
                     FirstDir(rd.segment_dirs)))

\* run up to the first remote fetch: the window check and the cache decision
BeginRun(s, e, byp, d) ==
    IF byp
    THEN [RunIdle EXCEPT !.pc = "fetch", !.bypass = TRUE, !.rs = s, !.re = e,
                         !.decision = "bypassed", !.missing_ranges = <<(<<s, e>>)>>,
                         !.idx = 1]
    ELSE LET dec == compute_cache_decision(d, s, e)
         IN  [RunIdle EXCEPT !.pc = IF dec.decision = "hit" THEN "hit" ELSE "fetch",
                             !.rs = s, !.re = e,
                             !.decision = dec.decision,
                             !.missing_ranges = IF dec.missing_ranges = <<>>
                                                THEN <<(<<s, e>>)>> ELSE dec.missing_ranges,
                             !.idx = 1,
                             !.segments_used = dec.segments_used,
                             !.segments_to_count = IF dec.decision = "partial"
                                                   THEN dec.segments_used ELSE <<>>,
                             !.bound = {"segments_used"}]

\* the loop taking the gaps last first
NextSubrangeReversed(r) == r.missing_ranges[Len(r.missing_ranges) + 1 - r.idx]

\* the sub-window the loop "for (sub_start, sub_end) in missing_ranges" fetches next
NextSubrange(r) == r.missing_ranges[r.idx]

\* "decoded = self._decode_events_payload(page.get('events')); if decoded: ..."
ExtractedAnyEvents(pages) == \E i \in 1 .. Len(pages) : pages[i] # <<>>

\* the loop moves to the next gap, or leaves the loop
Advance(r) ==
    [r EXCEPT !.idx = @ + 1,
              !.pc = IF r.idx + 1 > Len(r.missing_ranges) THEN "finish" ELSE "fetch"]

\* a sub-window without extractable events: "empty_subranges += 1; continue"
EmptySubrange(r) ==
    Advance([r EXCEPT !.empty_subranges = @ + 1, !.pages_payloads_seen = @ + 1])

\* the loop body after the writer returned ret for the sub-window sub
AfterSegmentWrite(r, sub, ret) ==
    LET rec == [r EXCEPT !.raw_events_seen = @ + ret.raw_events_seen,
                         !.duplicates_dropped = @ + ret.duplicates_dropped]
    IN  IF ret.rows_processed = 0
        THEN Advance([rec EXCEPT !.empty_subranges = @ + 1])
        ELSE Advance([rec EXCEPT !.segments_to_count =
                                     IF ret.dir THEN Append(@, sub) ELSE @,
                                 !.fetched_subranges = @ + 1,
                                 !.fetched_rows = @ + ret.rows_processed,
                                 !.parts_written_total = @ + ret.parts_written])

\* the final read-back taking every segment of the cache, overlapping or not
FinalSegmentsWholeCache(r, d) ==
    IF r.fetched_rows > 0 THEN list_segments(d) ELSE r.segments_to_count

\* the segments counted at the end of a run that fetched rows
FinalSegments(r, d) ==
    LET counted == SelectSeq(r.segments_to_count, LAMBDA seg : Overlaps(seg, r.rs, r.re))
        disk_overlapping == SelectSeq(list_segments(d), LAMBDA seg : Overlaps(seg, r.rs, r.re))
        fetched_ranges_set == {r.missing_ranges[i] : i \in 1 .. Len(r.missing_ranges)}
    IN  IF r.fetched_rows > 0
        THEN IF r.decision = "partial" THEN disk_overlapping
             ELSE SelectSeq(disk_overlapping, LAMBDA seg : seg \in fetched_ranges_set)
        ELSE counted

\* the read-back result of a run
ReadBackResult(r, d) ==
    LET rd == read_cached_segments(d, FinalSegments(r, d))
        done == [r EXCEPT !.bound = @ \cup {"final_dirs"}]
    IN  EmitSummaryAndReturn(done,
            Returned(r, rd.total_rows, FALSE, r.decision = "partial",
                     Len(rd.segment_dirs), r.raw_events_seen, r.duplicates_dropped,
                     FirstDir(rd.segment_dirs)))

\* the run without the empty-window result
FinishResultAlwaysReadsBack(r, d) == ReadBackResult(r, d)

\* run after the loop over the missing ranges
FinishResult(r, d) ==
    IF r.fetched_rows = 0
       /\ (r.empty_subranges = Len(r.missing_ranges) \/ r.pages_payloads_seen = 0)
    THEN Returned(r, 0, FALSE, r.decision = "partial", 0,
                  r.raw_events_seen, r.duplicates_dropped, <<>>)
    ELSE ReadBackResult(r, d)

\* the bypass branch of run after the writer returned ret
BypassResult(r, ret) ==
    IF ret.rows_processed = 0 \/ ~ret.dir
    THEN Returned(r, 0, FALSE, FALSE, 0, None, None, <<>>)
    ELSE EmitSummaryAndReturn(r,
             Returned(r, ret.rows_processed, FALSE, FALSE, 1,
                      ret.raw_events_seen, ret.duplicates_dropped, <<r.rs, r.re>>))

\* ------------------------------------------------------------------------
\* The remote log search, as the orchestrator sees it through fetch_logs
\* ------------------------------------------------------------------------
StrL == <<"L">>
\* the event the remote holds at time point t
EventAt(t) == Event(Some(StrL), NoStr, t, t)

\* the events of [s, e) the remote holds, in time order
RECURSIVE EventsIn(_, _, _)
EventsIn(rem, s, e) ==
    IF s >= e THEN <<>>
    ELSE (IF s \in rem THEN <<EventAt(s)>> ELSE <<>>) \o EventsIn(rem, s + 1, e)

\* the page lists fetch_logs may return for [s, e): all events on one page, or
\* two pages of which the second repeats the last event of the first
Responses(rem, s, e) ==
    LET h == EventsIn(rem, s, e)
    IN  {<<h>>} \cup (IF Len(h) >= 1 THEN {<<h, <<h[Len(h)]>>>>} ELSE {})

\* an event the remote returns with the answer to more than one sub-window (an
\* event stamped on a window boundary, or a late arrival): it carries the
\* sequence number MaxT, which no event of the time line carries
StrayEvent == EventAt(MaxT)

\* the pages of an answer with the events extra added to its last page
WithExtra(pages, extra) == [pages EXCEPT ![Len(pages)] = @ \o extra]

\* ------------------------------------------------------------------------
\* Fetch/poll client (api_client.py): Rapid7ApiClient.fetch_logs
\* ------------------------------------------------------------------------
MaxUrl == 2
MaxPollIter == 11
MaxWall == 6
MaxDt == 3
MaxPages == 3
MaxRetry == 2

\* lower limit of poll_max_wall_seconds, and the floor of the stuck threshold
MinWall == 5
StuckFloor == 10

Urls == 1 .. MaxUrl

\* A response of the remote: its status and, for a 200, the "links" value of
\* the body.  links is the JSON shape of that value: "list" is a list of
\* well-formed entries (or no value at all) with the rels given by self, next
\* and other (Self href, Next href, whether any other rel is present).
Response(status, self, next, other) ==
    [status |-> status, self |-> self, next |-> next, other |-> other, links |-> "list"]

\* The links values that are not a list of {rel, href} objects: a list with
\* an entry that is no object or lacks rel or href ("bad_entry"), a non-empty
\* string, a non-zero number or a non-empty object ("non_list"), and an empty
\* string, zero, false or an empty object ("empty_non_list").
MalformedLinks == {"bad_entry", "non_list", "empty_non_list"}

Malformed(kind) == [Response(200, None, None, FALSE) EXCEPT !.links = kind]

HttpResponses ==
    {Response(st, None, None, FALSE) : st \in {429, 500}}
        \cup {Response(200, None, None, o) : o \in BOOLEAN}
        \cup {Response(200, u, None, FALSE) : u \in Urls}
        \cup {Response(200, None, u, FALSE) : u \in Urls}
        \cup {Response(200, u, u, FALSE) : u \in Urls}
        \cup {Malformed(kind) : kind \in MalformedLinks}

NoResponse == Response(0, None, None, FALSE)

\* _links_map raises ValueError
links_map_raises(body) == body.links \in {"bad_entry", "non_list"}

\* the rels of the map _links_map returns
links_map(body) ==
    IF body.links # "list" THEN {}
    ELSE (IF body.self # None THEN {"Self"} ELSE {})
             \cup (IF body.next # None THEN {"Next"} ELSE {})
             \cup (IF body.other THEN {"Other"} ELSE {})

is_query_in_progress(body) ==
    IF links_map_raises(body) THEN "ValueError"
    ELSE IF links_map(body) = {} THEN "no"
    ELSE IF "Self" \in links_map(body) THEN "yes"
    ELSE IF "Next" \in links_map(body) THEN "no"
    ELSE "ValueError"

has_next_page(body) == "Next" \in links_map(body)

max_same_self_url_iterations_HalfOnly(lim) == lim.poll_max_iterations \div 2

max_same_self_url_iterations(lim) == Max(StuckFloor, lim.poll_max_iterations \div 2)

\* the small poll limits, and the two around the floor of the stuck threshold
PollLimits == {1, 2, MaxPollIter - 1, MaxPollIter}

\* the time a request and the sleep before it can take
Delays == {0, MaxDt}

Limits ==
    [poll_max_iterations : PollLimits,
     poll_max_wall_seconds : MinWall .. MaxWall,
     max_pages : 1 .. MaxPages,
     retry_attempts : 1 .. MaxRetry]

\* The locals of one fetch_logs call.  polls counts the poll responses
\* received for the page being polled; resp is the response handled last;
\* get_attempts is the local attempts of the running _request_get.
ClientStart(lim) ==
    [pc |-> "submit", error |-> "", lim |-> lim, attempts |-> 0, get_attempts |-> 0,
     page_num |-> 0, pages |-> <<>>, last_next_url |-> None,
     poll_count |-> 0, same_self_url_count |-> 0, last_self_url |-> None,
     elapsed |-> 0, polls |-> 0, resp |-> NoResponse]

ClientIdle ==
    [ClientStart([poll_max_iterations |-> 1, poll_max_wall_seconds |-> MinWall,
                  max_pages |-> 1, retry_attempts |-> 1]) EXCEPT !.pc = "idle"]

Raise(a, err) == [a EXCEPT !.pc = "raised", !.error = err]

\* the page limit of the pagination loop
PageLimitReachedAbove(a) == a.page_num > a.lim.max_pages

PageLimitReached(a) == a.page_num >= a.lim.max_pages

\* the repeated-URL check of the pagination loop
NextUrlRepeatedNever(a, body) == FALSE

NextUrlRepeated(a, body) == a.last_next_url # None /\ body.next = a.last_next_url

\* the two safety limits of the polling loop
PollLimitReachedIterationsOnly(a) == a.poll_count >= a.lim.poll_max_iterations

\* PollLimitReached without the iteration limit
PollLimitReachedWallOnly(a) == a.elapsed > a.lim.poll_max_wall_seconds

PollLimitReached(a) ==
    \/ a.poll_count >= a.lim.poll_max_iterations
    \/ a.elapsed > a.lim.poll_max_wall_seconds

\* PageCompleted returning the pages collected so far at the page limit
PageCompletedReturnsAtLimit(a, body) ==
    LET a1 == [a EXCEPT !.pages = Append(@, body),
                        !.poll_count = 0, !.same_self_url_count = 0,
                        !.last_self_url = None, !.elapsed = 0]
    IN  IF ~has_next_page(body) \/ PageLimitReached(a1) THEN [a1 EXCEPT !.pc = "returned"]
        ELSE IF NextUrlRepeated(a1, body)
            THEN Raise(a1, "RuntimeError: pagination did not advance")
        ELSE [a1 EXCEPT !.last_next_url = body.next,
                         !.page_num = @ + 1,
                         !.pc = "next_seed"]

\* A completed page is appended; then the pagination loop runs up to its
\* next request.
PageCompleted(a, body) ==
    LET a1 == [a EXCEPT !.pages = Append(@, body),
                        !.poll_count = 0, !.same_self_url_count = 0,
                        !.last_self_url = None, !.elapsed = 0]
    IN  IF ~has_next_page(body) THEN [a1 EXCEPT !.pc = "returned"]
        ELSE IF PageLimitReached(a1)
            THEN Raise(a1, "RuntimeError: max_pages")
        ELSE IF NextUrlRepeated(a1, body)
            THEN Raise(a1, "RuntimeError: pagination did not advance")
        ELSE [a1 EXCEPT !.last_next_url = body.next,
                         !.page_num = @ + 1,
                         !.pc = "next_seed"]

\* _poll_request_to_completion up to its first poll request: the seed
\* response of a page is either complete or starts the polling.
PollSeed(a, r) ==
    IF is_query_in_progress(r) = "ValueError" THEN Raise(a, "ValueError")
    ELSE IF is_query_in_progress(r) = "no" THEN PageCompleted([a EXCEPT !.polls = 0], r)
    ELSE [a EXCEPT !.pc = "poll", !.elapsed = 0, !.polls = 0,
                   !.last_self_url = r.self,
                   !.same_self_url_count = 0,
                   !.poll_count = 0]

\* _request_get at a failed attempt (ConnectionError or Timeout), re-raising
\* only after more than retry_attempts failures
RequestFailedOneMore(a, kind) ==
    LET a1 == [a EXCEPT !.get_attempts = @ + 1]
    IN  IF a1.get_attempts > a1.lim.retry_attempts THEN Raise(a1, kind) ELSE a1

\* _request_get at a failed attempt (ConnectionError or Timeout): the
\* exception is re-raised at the retry_attempts-th failure, else the request
\* is issued again
RequestFailed(a, kind) ==
    LET a1 == [a EXCEPT !.get_attempts = @ + 1]
    IN  IF a1.get_attempts >= a1.lim.retry_attempts THEN Raise(a1, kind) ELSE a1

\* The submit request and its retry loop.
SubmitResponse(a, r) ==
    LET a1 == [a EXCEPT !.resp = r, !.get_attempts = 0]
    IN  IF r.status = 429
            THEN LET a2 == [a1 EXCEPT !.attempts = @ + 1]
                 IN  IF a2.attempts > a2.lim.retry_attempts
                         THEN Raise(a2, "RateLimitedException")
                         ELSE a2
        ELSE IF r.status # 200 THEN Raise(a1, "HTTPError")
        ELSE PollSeed([a1 EXCEPT !.page_num = 1], r)

\* The request of a Next URL.
NextSeedResponse(a, r) ==
    LET a1 == [a EXCEPT !.resp = r, !.get_attempts = 0]
    IN  IF r.status = 429 THEN Raise(a1, "RateLimitedException")
        ELSE IF r.status # 200 THEN Raise(a1, "HTTPError")
        ELSE PollSeed(a1, r)

\* One poll response, received dt seconds after the previous response.
PollResponse(a, r, dt) ==
    LET a1 == [a EXCEPT !.resp = r, !.polls = @ + 1, !.get_attempts = 0,
                        !.elapsed = Min(@ + dt, MaxWall + 1)]
    IN  IF r.status = 429 THEN Raise(a1, "RateLimitedException")
        ELSE IF r.status # 200 THEN Raise(a1, "HTTPError")
        ELSE IF is_query_in_progress(r) = "ValueError" THEN Raise(a1, "ValueError")
        ELSE IF is_query_in_progress(r) = "no" THEN PageCompleted(a1, r)
        ELSE LET a2 == [a1 EXCEPT !.poll_count = @ + 1]
             IN  IF PollLimitReached(a2)
                     THEN Raise(a2, "TimeoutError")
                 ELSE IF r.self = a2.last_self_url
                     THEN LET a3 == [a2 EXCEPT !.same_self_url_count = @ + 1]
                          IN  IF a3.same_self_url_count
                                     >= max_same_self_url_iterations(a3.lim)
                                  THEN Raise(a3, "RuntimeError: stuck")
                                  ELSE a3
                 ELSE [a2 EXCEPT !.same_self_url_count = 0,
                                 !.last_self_url = r.self]

\* ------------------------------------------------------------------------
\* api_client.py: _raise_rate_limited, the wait of a 429 response
\* ------------------------------------------------------------------------
MaxHeaderLen == 2

\* lower and upper limit of the wait
MinWait == 1
MaxWait == 60

\* an optional int is [some, n]
NoInt == [some |-> FALSE, n |-> 0]
SomeInt(n) == [some |-> TRUE, n |-> n]

IsDigit(c) == \E i \in 1 .. Len(Digits) : Digits[i] = c

DigitValue(c) == (CHOOSE i \in 1 .. Len(Digits) : Digits[i] = c) - 1

\* the value of a non-empty string of decimal digits
RECURSIVE DigitsToInt(_)
DigitsToInt(s) ==
    IF s = <<>> THEN 0
    ELSE DigitsToInt(SubSeq(s, 1, Len(s) - 1)) * 10 + DigitValue(s[Len(s)])

\* int(value) of a str: an optional minus sign and at least one digit, else
\* ValueError (NoInt)
int_of_str(s) ==
    LET neg == s # <<>> /\ s[1] = "-"
        body == IF neg THEN Tail(s) ELSE s
    IN  IF body = <<>> \/ \E i \in 1 .. Len(body) : ~IsDigit(body[i]) THEN NoInt
        ELSE SomeInt(IF neg THEN 0 - DigitsToInt(body) ELSE DigitsToInt(body))

\* _parse_secs(value): None for a missing header and for one int() rejects
parse_secs(value) == IF ~value.some THEN NoInt ELSE int_of_str(value.v)

\* secs_until_reset without the upper limit
secs_until_reset_NoUpperLimit(retry_after, reset) ==
    LET first == parse_secs(retry_after)
        secs == IF first.some THEN first ELSE parse_secs(reset)
    IN  IF ~secs.some \/ secs.n < MinWait THEN MinWait ELSE secs.n

\* the secs_until_reset _raise_rate_limited computes from the two headers
secs_until_reset(retry_after, reset) ==
    LET first == parse_secs(retry_after)
        secs == IF first.some THEN first ELSE parse_secs(reset)
        bounded == IF ~secs.some \/ secs.n < MinWait THEN MinWait ELSE secs.n
    IN  IF bounded > MaxWait THEN MaxWait ELSE bounded

\* _raise_rate_limited(resp): returns for a status other than 429, else raises
\* RateLimitedException(message, secs)
raise_rate_limited(resp) ==
    IF resp.status # 429
        THEN [resp EXCEPT !.outcome = "returned"]
        ELSE [resp EXCEPT !.outcome = "RateLimitedException",
                          !.secs = secs_until_reset(resp.retry_after, resp.reset)]

RateIdle ==
    [status |-> 0, retry_after |-> NoStr, reset |-> NoStr, outcome |-> "idle", secs |-> None]

\* ------------------------------------------------------------------------
\* State
\* ------------------------------------------------------------------------
VARIABLES
    rq,      \* range algebra: the call under check [start, end, cached]
    rout,    \* range algebra: its outcome [status, missing]
    cfg,     \* LogIngestionConfig: [flush_rows, dedupe_events]
    disk,    \* cache root of the log: range -> segment directory (its parts)
    w,       \* locals of the running _write_events_streaming_to_cache_segment
    win,     \* the pages handed to the writer call (kept for the properties)
    remote,  \* the time points at which the remote log holds an event
    run,     \* locals of the running LogIngestionService.run
    result,  \* outcome of the last finished run ("none" while a run is going)
    hist,    \* history of the runs (kept for the properties)
    api,     \* locals of the running Rapid7ApiClient.fetch_logs
    rl,      \* _raise_rate_limited: the response under check and the outcome
    fs,      \* the directories under the cache root and the last listing of them
    peer     \* a second run writing the same segment: [w, win] of its writer call

rangeVars == <<rq, rout, fs, peer>>
writerVars == <<cfg, disk, w, win>>
svcVars == <<remote, run, result, hist>>
clientVars == <<api, rl>>
vars == <<rq, rout, cfg, disk, w, win, remote, run, result, hist, api, rl, fs, peer>>

\* every valid range of the orchestrator's time points
Windows == {r \in TimePoints \X TimePoints : r[2] > r[1]}
Configs == [flush_rows : 1 .. MaxFlush, dedupe_events : BOOLEAN]
EmptyDisk == [r \in Windows |-> <<>>]

\* every sequence over S of length at most n
RECURSIVE SeqsUpTo(_, _)
SeqsUpTo(S, n) ==
    IF n = 0 THEN {<<>>}
    ELSE LET shorter == SeqsUpTo(S, n - 1)
         IN  shorter \cup {Append(q, x) : q \in {p \in shorter : Len(p) = n - 1}, x \in S}

\* ------------------------------------------------------------------------
\* cache_index.py: segment addressing on the directory tree
\* ------------------------------------------------------------------------
MaxLogLen == 2
MaxDirs == 2
MaxAddr == 1

\* the log ids: the non-empty strings of letters and slashes
LogChars == {"a", "/"}
LogIds == SeqsUpTo(LogChars, MaxLogLen) \ {<<>>}
AddrInts == (0 - MaxAddr) .. MaxAddr

\* str(int(n)) as the f-string formats it
int_str(n) == IF n < 0 THEN <<"-">> \o IntToStr(0 - n) ELSE IntToStr(n)

\* the pieces of a str between its slashes
RECURSIVE SplitSlash(_, _)
SplitSlash(s, piece) ==
    IF s = <<>> THEN <<piece>>
    ELSE IF Head(s) = "/" THEN <<piece>> \o SplitSlash(Tail(s), <<>>)
    ELSE SplitSlash(Tail(s), Append(piece, Head(s)))

\* the names pathlib keeps of a str: its pieces other than "" and "."
PathNames(s) == SelectSeq(SplitSlash(s, <<>>), LAMBDA n : n # <<>> /\ n # <<".">>)

RECURSIVE LeadingSlashes(_)
LeadingSlashes(s) ==
    IF s = <<>> \/ Head(s) # "/" THEN 0 ELSE 1 + LeadingSlashes(Tail(s))

\* the root pathlib reads off a str: none for a relative one, "//" for exactly
\* two leading slashes, "/" otherwise
PathRoot(s) ==
    IF LeadingSlashes(s) = 0 THEN <<>>
    ELSE IF LeadingSlashes(s) = 2 THEN <<(<<"/", "/">>)>>
    ELSE <<(<<"/">>)>>

\* a path is the sequence of its root (if any) and its names; "path / s" drops
\* path when s is absolute
JoinPath(path, s) ==
    IF PathRoot(s) # <<>> THEN PathRoot(s) \o PathNames(s) ELSE path \o PathNames(s)

\* the cache root of the model: the relative path "r"
CacheRoot == <<(<<"r">>)>>

FromPrefix == <<"f", "r", "o", "m", "=">>
ToPrefix == <<"t", "o", "=">>

\* Path(cache_root) / log_id / f"from={int(start_ms)}" / f"to={int(end_ms)}"
segment_dir_for_range(cache_root, log_id, start_ms, end_ms) ==
    JoinPath(JoinPath(JoinPath(cache_root, log_id), FromPrefix \o int_str(start_ms)),
             ToPrefix \o int_str(end_ms))

\* a directory tree is the set of its directories; a path exists when it is one
\* of them or lies above one
IsPathPrefix(a, b) == Len(a) <= Len(b) /\ SubSeq(b, 1, Len(a)) = a
PathExists(dirs, path) == \E d \in dirs : IsPathPrefix(path, d)

\* the names directly under path that match the pattern prefix*
Glob(dirs, path, prefix) ==
    {d[Len(path) + 1] : d \in {x \in dirs : IsPathPrefix(path, x) /\ Len(x) > Len(path)
                                            /\ IsPathPrefix(prefix, x[Len(path) + 1])}}

\* int(name.split("=", 1)[1]) of a name that matches prefix*, the prefix ending
\* in the first "=" of the name
ParseAfter(name, prefix) == int_of_str(SubSeq(name, Len(prefix) + 1, Len(name)))

\* the code points of the characters of the model's paths
CharCode(c) ==
    CASE c = "-" -> 45 [] c = "." -> 46 [] c = "/" -> 47 [] c = "0" -> 48
      [] c = "1" -> 49 [] c = "2" -> 50 [] c = "=" -> 61 [] c = "a" -> 97
      [] c = "f" -> 102 [] c = "m" -> 109 [] c = "o" -> 111 [] c = "r" -> 114
      [] c = "t" -> 116 [] c = "x" -> 120

\* a < b for two str
RECURSIVE StrLess(_, _)
StrLess(a, b) ==
    IF b = <<>> THEN FALSE
    ELSE IF a = <<>> THEN TRUE
    ELSE IF Head(a) # Head(b) THEN CharCode(Head(a)) < CharCode(Head(b))
    ELSE StrLess(Tail(a), Tail(b))

\* str(path): the names joined by "/", after the root if there is one
RECURSIVE JoinNames(_)
JoinNames(names) ==
    IF names = <<>> THEN <<>>
    ELSE IF Len(names) = 1 THEN Head(names)
    ELSE Head(names) \o <<"/">> \o JoinNames(Tail(names))

PathStr(path) ==
    IF path # <<>> /\ Head(Head(path)) = "/" THEN Head(path) \o JoinNames(Tail(path))
    ELSE JoinNames(path)

CacheSegment(log_id, start_ms, end_ms, path) ==
    [log_id |-> log_id, start_ms |-> start_ms, end_ms |-> end_ms, path |-> path]

\* the sort key (s.start_ms, s.end_ms, str(s.path))
SegmentLess(a, b) ==
    \/ a.start_ms < b.start_ms
    \/ a.start_ms = b.start_ms /\ a.end_ms < b.end_ms
    \/ a.start_ms = b.start_ms /\ a.end_ms = b.end_ms
       /\ StrLess(PathStr(a.path), PathStr(b.path))

RECURSIVE SortSegments(_)
SortSegments(S) ==
    IF S = {} THEN <<>>
    ELSE LET m == CHOOSE x \in S : \A y \in S : x = y \/ SegmentLess(x, y)
         IN  <<m>> \o SortSegments(S \ {m})

\* list_segments(cache_root, log_id) read off the directory tree dirs
list_segments_in(dirs, cache_root, log_id) ==
    LET base == JoinPath(cache_root, log_id)
        found ==
            {CacheSegment(log_id, ParseAfter(f, FromPrefix).n, ParseAfter(t, ToPrefix).n,
                          base \o <<f, t>>) :
                <<f, t>> \in
                    {ft \in Glob(dirs, base, FromPrefix)
                              \X UNION {Glob(dirs, base \o <<f2>>, ToPrefix) :
                                           f2 \in Glob(dirs, base, FromPrefix)} :
                        /\ ParseAfter(ft[1], FromPrefix).some
                        /\ ft[2] \in Glob(dirs, base \o <<ft[1]>>, ToPrefix)
                        /\ ParseAfter(ft[2], ToPrefix).some
                        /\ ParseAfter(ft[2], ToPrefix).n > ParseAfter(ft[1], FromPrefix).n}}
    IN  IF ~PathExists(dirs, base) THEN <<>> ELSE SortSegments(found)

NoListing == [status |-> "none", log_id |-> <<>>, segments |-> <<>>]
EmptyTree == [dirs |-> {}, listed |-> NoListing]

NoCall == [status |-> "none", missing |-> <<>>, normalized |-> <<>>]

\* the range algebra and the writer at rest
RangeIdle ==
    /\ rq = [start |-> 0, end |-> 0, cached |-> <<>>]
    /\ rout = NoCall
    /\ fs = EmptyTree
    /\ peer = PeerIdle

\* what the properties remember of the run before the current one when the
\* current run repeats its window
NoPrev ==
    [status |-> "none", decision |-> "none", rs |-> 0, re |-> 0, rows_processed |-> None,
     written |-> {}, stopped_in |-> <<>>]

\* runs: runs started; fetchLog: the (start, end) of the current run's fetches in
\* order; diskAtStart: the cache when the current run started; written: the gaps
\* whose segment write returned; stopped_in: the segment a failure or an
\* interruption left with some of its parts flushed; unreadable: the segment
\* the current run cannot open; emptied: the sub-windows whose fetch, in this
\* run or an earlier one, yielded no event
NoHistory ==
    [runs |-> 0, fetchLog |-> <<>>, diskAtStart |-> EmptyDisk, written |-> {},
     stopped_in |-> <<>>, prev |-> NoPrev, unreadable |-> <<>>, emptied |-> {}]
ServiceIdle ==
    /\ remote = {}
    /\ run = RunIdle
    /\ result = NoResult
    /\ hist = NoHistory

\* the writer wr has flushed some parts of its segment and holds events not yet
\* flushed
PartlyFlushed(wr, d) ==
    d[wr.seg] # <<>> /\ (DropEmptyPages(wr.pages) # <<>> \/ wr.buffer # <<>>)

\* ------------------------------------------------------------------------
\* Actions of the streaming segment writer
\* ------------------------------------------------------------------------
\* one iteration of "for ev in page_events", the flush included
WriteEvent ==
    /\ w.pc = "loop"
    /\ DropEmptyPages(w.pages) # <<>>
    /\ LET a == AcceptEvent(w, cfg)
       IN  IF FlushDue(a, cfg)
           THEN /\ disk' = [disk EXCEPT ![w.seg] = write_part(@, a.part_idx, a.buffer)]
                /\ w' = [a EXCEPT !.part_idx = @ + 1, !.buffer = <<>>]
           ELSE /\ w' = a
                /\ UNCHANGED disk
    /\ UNCHANGED <<clientVars, rangeVars, cfg, win, svcVars>>

\* write_part raises at the flush the next event makes due
WritePartRaises ==
    /\ w.pc = "loop"
    /\ \/ /\ DropEmptyPages(w.pages) # <<>>
          /\ FlushDue(AcceptEvent(w, cfg), cfg)
       \/ /\ DropEmptyPages(w.pages) = <<>>
          /\ w.buffer # <<>>
    /\ w' = [w EXCEPT !.pc = "raised"]
    /\ UNCHANGED <<clientVars, rangeVars, cfg, disk, win, svcVars>>

\* the end of the page loop: the final flush and the return
FinalFlush ==
    /\ w.pc = "loop"
    /\ DropEmptyPages(w.pages) = <<>>
    /\ IF w.buffer # <<>>
       THEN /\ disk' = [disk EXCEPT ![w.seg] = write_part(@, w.part_idx, w.buffer)]
            /\ w' = [w EXCEPT !.part_idx = @ + 1, !.pc = "returned", !.pages = <<>>]
       ELSE /\ w' = [w EXCEPT !.pc = "returned", !.pages = <<>>]
            /\ UNCHANGED disk
    /\ UNCHANGED <<clientVars, rangeVars, cfg, win, svcVars>>


\* ------------------------------------------------------------------------
\* Actions of the orchestrator: LogIngestionService.run, cut at its remote
\* fetches and at the writer's steps
\* ------------------------------------------------------------------------
\* the window test of run, refusing only an end before the start
WindowRefusedReversedOnly(s, e) == e < s

\* the window run refuses: end_time_millis <= start_time_millis
WindowRefused(s, e) == e <= s

\* a run with the cache enabled that reads the overlapping segments only when
\* they cover the whole window
PreReadFailsHitOnly(r, bad) ==
    ~r.bypass /\ r.decision = "hit" /\ ReadFails(r.segments_used, bad)

\* the reads of the cached segments ahead of any fetch: "total_rows, segment_dirs
\* = self._read_cached_segments(segments_used)" of a hit and "if segments_used:
\* self._read_cached_segments(segments_used)" of a partial decision raise when
\* a segment cannot be opened; the bypass branch reads no segment
PreReadFails(r, bad) ==
    ~r.bypass /\ ReadFails(r.segments_used, bad)

\* run(start_time, end_time) up to its first remote fetch, bypass_cache being
\* one of modes; a cache hit ends here
StartRunIn(modes) ==
    /\ run.pc = "idle"
    /\ hist.runs < MaxRuns
    /\ \E s \in TimePoints, e \in TimePoints, byp \in modes :
       \E bad \in IF s < e THEN UnreadableChoices(disk, s, e) ELSE {<<>>} :
          LET r == BeginRun(s, e, byp, disk)
              h == [hist EXCEPT !.runs = @ + 1, !.fetchLog = <<>>, !.diskAtStart = disk,
                                !.written = {}, !.stopped_in = <<>>,
                                !.unreadable = bad,
                                !.prev = IF s < e /\ s = result.rs /\ e = result.re
                                         THEN [status |-> result.status,
                                               decision |-> result.decision,
                                               rs |-> result.rs, re |-> result.re,
                                               rows_processed |-> result.rows_processed,
                                               written |-> hist.written,
                                               stopped_in |-> hist.stopped_in]
                                         ELSE NoPrev]
          IN  /\ hist' = h
              /\ IF WindowRefused(s, e)
                 THEN /\ result' = Failed([RunIdle EXCEPT !.rs = s, !.re = e],
                                          "raised", "ValueError")
                      /\ run' = RunIdle
                 ELSE IF PreReadFails(r, bad)
                 THEN /\ result' = Failed(r, "raised", "RuntimeError")
                      /\ run' = RunIdle
                 ELSE IF r.pc = "hit"
                 THEN /\ result' = HitResult(r, disk)
                      /\ run' = RunIdle
                 ELSE /\ result' = NoResult
                      /\ run' = r
    /\ UNCHANGED <<clientVars, rangeVars, writerVars, remote>>

\* a run with bypass_cache on or off
StartRun == StartRunIn(BOOLEAN)

\* a run with bypass_cache off
StartCachedRun == StartRunIn({FALSE})

\* fetch_logs returns the pages of the next sub-window, the remote adding one of
\* the event lists extras to its answer
FetchLogsOf(extras) ==
    /\ run.pc = "fetch"
    /\ LET sub == NextSubrange(run)
       IN  /\ \E answer \in Responses(remote, sub[1], sub[2]), extra \in extras :
              LET pages == WithExtra(answer, extra) IN
                 /\ hist' = [hist EXCEPT !.fetchLog = Append(@, sub),
                                         !.emptied = IF ExtractedAnyEvents(pages)
                                                     THEN @ ELSE @ \cup {sub}]
                 /\ IF ExtractedAnyEvents(pages)
                    THEN /\ run' = [run EXCEPT !.pc = "write", !.pages_payloads_seen = @ + 1]
                         /\ w' = WriterStart(sub, pages)
                         /\ win' = pages
                         /\ UNCHANGED result
                    ELSE /\ UNCHANGED <<w, win>>
                         /\ IF run.bypass
                            THEN /\ result' = Returned(run, 0, FALSE, FALSE, 0, None, None, <<>>)
                                 /\ run' = RunIdle
                            ELSE /\ run' = EmptySubrange(run)
                                 /\ UNCHANGED result
    /\ UNCHANGED <<clientVars, rangeVars, cfg, disk, remote>>

\* fetch_logs returns the events of the sub-window and no other
FetchLogs == FetchLogsOf({<<>>})

\* fetch_logs returns the events of the sub-window, with or without an event
\* that the remote also returns for other sub-windows
FetchLogsWithStray == FetchLogsOf({<<>>, <<StrayEvent>>})

\* a failed fetch that removes what the run has written so far
FetchRaisesRollback ==
    /\ run.pc = "fetch"
    /\ hist' = [hist EXCEPT !.fetchLog = Append(@, NextSubrange(run))]
    /\ result' = Failed(run, "raised", "")
    /\ run' = RunIdle
    /\ disk' = hist.diskAtStart
    /\ UNCHANGED <<clientVars, rangeVars, cfg, w, win, remote>>

\* fetch_logs raises (timeout, protocol violation, connection error)
FetchRaises ==
    /\ run.pc = "fetch"
    /\ hist' = [hist EXCEPT !.fetchLog = Append(@, NextSubrange(run))]
    /\ result' = Failed(run, "raised", "")
    /\ run' = RunIdle
    /\ UNCHANGED <<clientVars, rangeVars, writerVars, remote>>

\* the writer returned: the rest of the loop body, or the end of a bypass run
SegmentWritten ==
    /\ run.pc = "write"
    /\ w.pc = "returned"
    /\ w' = WriterIdle
    /\ IF run.bypass
       THEN /\ result' = BypassResult(run, WriterReturn(w))
            /\ run' = RunIdle
            /\ UNCHANGED hist
       ELSE /\ run' = AfterSegmentWrite(run, w.seg, WriterReturn(w))
            /\ hist' = [hist EXCEPT !.written = @ \cup {w.seg}]
            /\ UNCHANGED result
    /\ win' = <<>>
    /\ UNCHANGED <<clientVars, rangeVars, cfg, disk, remote>>

\* write_part raised inside the writer: the exception leaves run
WriteFailed ==
    /\ run.pc = "write"
    /\ w.pc = "raised"
    /\ w' = WriterIdle
    /\ result' = Failed(run, "raised", "")
    /\ run' = RunIdle
    /\ win' = <<>>
    /\ hist' = [hist EXCEPT !.stopped_in = IF PartlyFlushed(w, disk) THEN w.seg ELSE <<>>]
    /\ UNCHANGED <<clientVars, rangeVars, cfg, disk, remote>>

\* run after the loop: the empty-window result or the read-back result
FinishRun ==
    /\ run.pc = "finish"
    /\ result' = FinishResult(run, disk)
    /\ run' = RunIdle
    /\ UNCHANGED <<clientVars, rangeVars, writerVars, remote, hist>>

\* the process is interrupted while the writer is between two of its steps
Interrupt ==
    /\ run.pc = "write"
    /\ w.pc = "loop"
    /\ result' = Failed(run, "interrupted", "")
    /\ run' = RunIdle
    /\ w' = WriterIdle
    /\ win' = <<>>
    /\ hist' = [hist EXCEPT !.stopped_in = IF PartlyFlushed(w, disk) THEN w.seg ELSE <<>>]
    /\ UNCHANGED <<clientVars, rangeVars, cfg, disk, remote>>

Init ==
    /\ RangeIdle
    /\ cfg \in Configs
    /\ disk = EmptyDisk
    /\ w = WriterIdle
    /\ win = <<>>
    /\ remote \in SUBSET (0 .. MaxT - 1)
    /\ run = RunIdle
    /\ result = NoResult
    /\ hist = NoHistory
    /\ api = ClientIdle
    /\ rl = RateIdle

Next ==
    \/ StartRun
    \/ FetchLogs
    \/ FetchRaises
    \/ WriteEvent
    \/ WritePartRaises
    \/ FinalFlush
    \/ SegmentWritten
    \/ WriteFailed
    \/ FinishRun
    \/ Interrupt

Spec == Init /\ [][Next]_vars

\* ------------------------------------------------------------------------
\* Specification of a single process that always runs with the cache enabled,
\* starting from an empty cache
\* ------------------------------------------------------------------------
CachedNext ==
    \/ StartCachedRun
    \/ FetchLogs
    \/ FetchRaises
    \/ WriteEvent
    \/ WritePartRaises
    \/ FinalFlush
    \/ SegmentWritten
    \/ WriteFailed
    \/ FinishRun
    \/ Interrupt

CachedSpec == Init /\ [][CachedNext]_vars

\* ------------------------------------------------------------------------
\* Specification of runs with the cache enabled against a remote that may
\* return one and the same event with the answers to different sub-windows
\* ------------------------------------------------------------------------
StrayNext ==
    \/ StartCachedRun
    \/ FetchLogsWithStray
    \/ FetchRaises
    \/ WriteEvent
    \/ WritePartRaises
    \/ FinalFlush
    \/ SegmentWritten
    \/ WriteFailed
    \/ FinishRun
    \/ Interrupt

StraySpec == Init /\ [][StrayNext]_vars

\* ------------------------------------------------------------------------
\* Specification of the range algebra: every call of compute_missing_subranges
\* ------------------------------------------------------------------------

RangeInit ==
    /\ rq \in [start : RangePoints, end : RangePoints, cached : SeqsUpTo(AnyRange, MaxCached)]
    /\ rout = NoCall
    /\ fs = EmptyTree
    /\ peer = PeerIdle
    /\ cfg = [flush_rows |-> 1, dedupe_events |-> TRUE]
    /\ disk = EmptyDisk
    /\ w = WriterIdle
    /\ win = <<>>
    /\ ServiceIdle
    /\ api = ClientIdle
    /\ rl = RateIdle

\* the window test of compute_missing_subranges, with strict inequality instead
InvalidWindowStrict(rs, re) == re < rs

\* the window compute_missing_subranges refuses
InvalidWindow(rs, re) == re <= rs

\* compute_missing_subranges(requested_start_ms, requested_end_ms, cached_ranges_ms),
\* and _normalize_ranges on the same list of cached ranges
CallComputeMissing ==
    /\ rout.status = "none"
    /\ rout' = IF InvalidWindow(rq.start, rq.end)
               THEN [status |-> "ValueError", missing |-> <<>>,
                     normalized |-> normalize_ranges(rq.cached)]
               ELSE [status |-> "returned",
                     missing |-> compute_missing_subranges(rq.start, rq.end, rq.cached),
                     normalized |-> normalize_ranges(rq.cached)]
    /\ UNCHANGED <<rq, fs, peer, writerVars, svcVars, clientVars>>

RangeNext == CallComputeMissing

RangeSpec == RangeInit /\ [][RangeNext]_vars

\* ------------------------------------------------------------------------
\* Specification of the writer: one call of
\* _write_events_streaming_to_cache_segment on every short sequence of pages
\* ------------------------------------------------------------------------
StrA == <<"a">>
\* the events a page of the writer specification may hold: with both key fields
\* (sequence number as int or as str), without log_id, without a sequence
\* number, and with a ":" inside log_id or inside the sequence number
WriterEvents ==
    { Event(Some(StrA), NoStr, 1, 0),
      Event(Some(StrA), Some(<<"1">>), None, 1),
      Event(Some(StrA), NoStr, 2, 2),
      Event(NoStr, NoStr, 1, 0),
      Event(Some(StrA), NoStr, None, None),
      Event(Some(<<"a", ":", "1">>), NoStr, 2, 1),
      Event(Some(StrA), Some(<<"1", ":", "2">>), None, 2) }

\* the segment the writer specification writes
WSeg == <<0, 1>>

\* a flat event list cut into two pages after its first k events
SplitPages(evs, k) == <<SubSeq(evs, 1, k), SubSeq(evs, k + 1, Len(evs))>>

WriterInit ==
    /\ RangeIdle
    /\ cfg \in Configs
    /\ disk = EmptyDisk
    /\ \E evs \in SeqsUpTo(WriterEvents, MaxWEvents) : \E k \in 0 .. Len(evs) :
          /\ win = SplitPages(evs, k)
          /\ w = WriterStart(WSeg, win)
    /\ ServiceIdle
    /\ api = ClientIdle
    /\ rl = RateIdle

WriterNext == WriteEvent \/ WritePartRaises \/ FinalFlush

WriterSpec == WriterInit /\ [][WriterNext]_vars

\* ------------------------------------------------------------------------
\* Specification of two runs writing the same segment at once: each run has
\* its own fetch of the sub-window and its own writer call; the calls share
\* the segment directory and take their steps in any order
\* ------------------------------------------------------------------------
\* the events the two fetches may return
RaceEvents == {EventAt(0), EventAt(1)}

\* one iteration of "for ev in page_events" of the second run, the flush
\* included
PeerWriteEvent ==
    /\ peer.w.pc = "loop"
    /\ DropEmptyPages(peer.w.pages) # <<>>
    /\ LET a == AcceptEvent(peer.w, cfg)
       IN  IF FlushDue(a, cfg)
           THEN /\ disk' = [disk EXCEPT ![a.seg] = write_part(@, a.part_idx, a.buffer)]
                /\ peer' = [peer EXCEPT !.w = [a EXCEPT !.part_idx = @ + 1,
                                                        !.buffer = <<>>]]
           ELSE /\ peer' = [peer EXCEPT !.w = a]
                /\ UNCHANGED disk
    /\ UNCHANGED <<clientVars, rq, rout, fs, cfg, w, win, svcVars>>

\* the end of the page loop of the second run: the final flush and the return
PeerFinalFlush ==
    /\ peer.w.pc = "loop"
    /\ DropEmptyPages(peer.w.pages) = <<>>
    /\ IF peer.w.buffer # <<>>
       THEN /\ disk' = [disk EXCEPT ![peer.w.seg] =
                            write_part(@, peer.w.part_idx, peer.w.buffer)]
            /\ peer' = [peer EXCEPT !.w = [@ EXCEPT !.part_idx = @ + 1,
                                                    !.pc = "returned",
                                                    !.pages = <<>>]]
       ELSE /\ peer' = [peer EXCEPT !.w = [@ EXCEPT !.pc = "returned", !.pages = <<>>]]
            /\ UNCHANGED disk
    /\ UNCHANGED <<clientVars, rq, rout, fs, cfg, w, win, svcVars>>

RaceInit ==
    /\ rq = [start |-> 0, end |-> 0, cached |-> <<>>]
    /\ rout = NoCall
    /\ fs = EmptyTree
    /\ cfg \in Configs
    /\ disk = EmptyDisk
    /\ \E evs \in SeqsUpTo(RaceEvents, MaxWEvents), other \in SeqsUpTo(RaceEvents, MaxWEvents) :
          /\ win = <<evs>>
          /\ w = WriterStart(WSeg, win)
          /\ peer = [w |-> WriterStart(WSeg, <<other>>), win |-> <<other>>]
    /\ ServiceIdle
    /\ api = ClientIdle
    /\ rl = RateIdle

RaceNext == WriteEvent \/ FinalFlush \/ PeerWriteEvent \/ PeerFinalFlush

RaceSpec == RaceInit /\ [][RaceNext]_vars

\* ------------------------------------------------------------------------
\* Specification of the segment addressing: directories made under the cache
\* root, by the writer and by anything else, and listings of them
\* ------------------------------------------------------------------------
\* what follows "from=" or "to=" in a directory name no writer made: nothing, a
\* letter, a numeral with a leading zero
OtherRests == {<<>>, <<"x">>, <<"0", "1">>}

\* the directory names found under a log's directory and under a from= directory
FromNames ==
    {FromPrefix \o int_str(n) : n \in AddrInts} \cup {FromPrefix \o r : r \in OtherRests}
        \cup {<<"x">>}
ToNames ==
    {ToPrefix \o int_str(n) : n \in AddrInts} \cup {ToPrefix \o r : r \in OtherRests}
        \cup {<<"x">>}

\* the segment directories the writer can make
SegmentDirs ==
    {segment_dir_for_range(CacheRoot, log, s, e) :
        <<log, s, e>> \in {x \in LogIds \X AddrInts \X AddrInts : x[2] < x[3]}}

AddrInit ==
    /\ RangeIdle
    /\ cfg = [flush_rows |-> 1, dedupe_events |-> TRUE]
    /\ disk = EmptyDisk
    /\ w = WriterIdle
    /\ win = <<>>
    /\ ServiceIdle
    /\ api = ClientIdle
    /\ rl = RateIdle

\* write_part makes the directory segment_dir_for_range(...) of a sub-window
MakeSegmentDir ==
    /\ Cardinality(fs.dirs) < MaxDirs
    /\ \E log \in LogIds, s \in AddrInts, e \in AddrInts :
          /\ s < e
          /\ fs' = [dirs |-> fs.dirs \cup {segment_dir_for_range(CacheRoot, log, s, e)},
                    listed |-> NoListing]
    /\ UNCHANGED <<rq, rout, peer, writerVars, svcVars, clientVars>>

\* something else makes a directory under the directory of a log: one level
\* or two levels deep, with a name the writer never gives or with end <= start
MakeOtherDir ==
    /\ Cardinality(fs.dirs) < MaxDirs
    /\ \E log \in LogIds, f \in FromNames, t \in ToNames \cup {<<>>} :
          LET path == JoinPath(CacheRoot, log) \o (IF t = <<>> THEN <<f>> ELSE <<f, t>>)
          IN  /\ path \notin SegmentDirs
              /\ fs' = [dirs |-> fs.dirs \cup {path}, listed |-> NoListing]
    /\ UNCHANGED <<rq, rout, peer, writerVars, svcVars, clientVars>>

\* list_segments(cache_root, log_id)
CallListSegments ==
    /\ fs.listed.status = "none"
    /\ \E log \in LogIds :
          fs' = [fs EXCEPT !.listed =
                    [status |-> "returned", log_id |-> log,
                     segments |-> list_segments_in(fs.dirs, CacheRoot, log)]]
    /\ UNCHANGED <<rq, rout, peer, writerVars, svcVars, clientVars>>

AddrNext == MakeSegmentDir \/ MakeOtherDir \/ CallListSegments

AddrSpec == AddrInit /\ [][AddrNext]_vars

\* ------------------------------------------------------------------------
\* Specification of one fetch_logs call against an arbitrary remote
\* ------------------------------------------------------------------------
Submit ==
    /\ api.pc = "submit"
    /\ \E r \in HttpResponses : api' = SubmitResponse(api, r)
    /\ UNCHANGED <<rangeVars, writerVars, svcVars, rl>>

Poll ==
    /\ api.pc = "poll"
    /\ \E r \in HttpResponses, dt \in Delays : api' = PollResponse(api, r, dt)
    /\ UNCHANGED <<rangeVars, writerVars, svcVars, rl>>

NextPage ==
    /\ api.pc = "next_seed"
    /\ \E r \in HttpResponses : api' = NextSeedResponse(api, r)
    /\ UNCHANGED <<rangeVars, writerVars, svcVars, rl>>

\* the exceptions _request_get retries
TransientErrors == {"ConnectionError", "Timeout"}

\* session.get raises inside _request_get, at any of the three request sites
ConnectionFails ==
    /\ api.pc \in {"submit", "poll", "next_seed"}
    /\ \E kind \in TransientErrors : api' = RequestFailed(api, kind)
    /\ UNCHANGED <<rangeVars, writerVars, svcVars, rl>>

ClientInit ==
    /\ RangeIdle
    /\ cfg = [flush_rows |-> 1, dedupe_events |-> TRUE]
    /\ disk = EmptyDisk
    /\ w = WriterIdle
    /\ win = <<>>
    /\ ServiceIdle
    /\ api \in {ClientStart(lim) : lim \in Limits}
    /\ rl = RateIdle

ClientNext == Submit \/ Poll \/ NextPage \/ ConnectionFails

ClientSpec == ClientInit /\ [][ClientNext]_vars

\* the configurations of the termination check: every limit at its smallest
\* values, and the largest poll limit with a single page
LiveLimits == {lim \in Limits : lim.poll_max_iterations <= 2 \/ lim.max_pages = 1}

ClientLiveInit ==
    /\ RangeIdle
    /\ cfg = [flush_rows |-> 1, dedupe_events |-> TRUE]
    /\ disk = EmptyDisk
    /\ w = WriterIdle
    /\ win = <<>>
    /\ ServiceIdle
    /\ api \in {ClientStart(lim) : lim \in LiveLimits}
    /\ rl = RateIdle

\* fetch_logs is sequential code: every session.get is called with timeout=30 and
\* so either returns or raises, and every sleep is finite (backoff <= 2 s, poll
\* delay <= 6 s, rate-limit wait <= 60 s), so a call that can take a step takes it
ClientLiveSpec == ClientLiveInit /\ [][ClientNext]_vars /\ WF_vars(ClientNext)

\* ------------------------------------------------------------------------
\* Specification of _raise_rate_limited: one call on every response with short
\* Retry-After and X-RateLimit-Reset headers
\* ------------------------------------------------------------------------
\* the characters of a header value: a sign, digits that spell values below,
\* at and above both limits, and a character int() rejects
HeaderChars == {"-", "0", "1", "6", "x"}

\* a header is missing or holds a string, the empty one included
HeaderValues == {NoStr} \cup {Some(s) : s \in SeqsUpTo(HeaderChars, MaxHeaderLen)}

RateInit ==
    /\ RangeIdle
    /\ cfg = [flush_rows |-> 1, dedupe_events |-> TRUE]
    /\ disk = EmptyDisk
    /\ w = WriterIdle
    /\ win = <<>>
    /\ ServiceIdle
    /\ api = ClientIdle
    /\ rl \in [status : {200, 429}, retry_after : HeaderValues, reset : HeaderValues,
                outcome : {"none"}, secs : {None}]

CallRaiseRateLimited ==
    /\ rl.outcome = "none"
    /\ rl' = raise_rate_limited(rl)
    /\ UNCHANGED <<rangeVars, writerVars, svcVars, api>>

RateNext == CallRaiseRateLimited

RateSpec == RateInit /\ [][RateNext]_vars

\* ------------------------------------------------------------------------
\* Properties of the range algebra
\* ------------------------------------------------------------------------
\* points covered by the valid ranges of a list
CoveredBy(ranges) == UNION {PointsOf(ranges[i]) : i \in 1 .. Len(ranges)}

\* a list of ranges sorted by start, each non-empty, pairwise disjoint, inside [rs, re)
IsGapList(m, rs, re) ==
    /\ \A i \in 1 .. Len(m) : m[i][1] < m[i][2] /\ rs <= m[i][1] /\ m[i][2] <= re
    /\ \A i, j \in 1 .. Len(m) : i < j => m[i][2] <= m[j][1]

\* C1: for every valid window and every list of cached ranges (any order, invalid,
\* overlapping, adjacent, out of window), compute_missing_subranges returns a list
\* sorted by start of non-empty, pairwise disjoint ranges inside the window, and a
\* point of the window lies in a returned gap iff it lies in no valid cached range.
C1_MissingPartitionsWindow ==
    rout.status = "returned" =>
        /\ IsGapList(rout.missing, rq.start, rq.end)
        /\ \A t \in PointsOf(<<rq.start, rq.end>>) :
              (t \in CoveredBy(rout.missing)) <=> (t \notin CoveredBy(rq.cached))

\* C1 witness: two gaps computed from an unsorted list holding an invalid range
C1_Witness ==
    /\ rout.status = "returned"
    /\ Len(rout.missing) = 2
    /\ Len(rq.cached) = 2
    /\ rq.cached[1][1] > rq.cached[2][1]
    /\ rq.cached[2][2] <= rq.cached[2][1]

\* C23: compute_missing_subranges raises ValueError whenever the requested end is
\* not after the requested start, whatever the cached ranges; for such a window it
\* returns no list, and in particular not the empty list of a cache hit.
C23_InvalidWindowRaises ==
    (rout.status # "none" /\ rq.end <= rq.start) =>
        (rout.status = "ValueError" /\ rout.missing = <<>>)

\* C23 witness: an empty window over a cached range that contains its point
C23_Witness ==
    /\ rout.status = "ValueError"
    /\ rq.end = rq.start
    /\ Len(rq.cached) = 1
    /\ rq.cached[1][1] < rq.start /\ rq.start < rq.cached[1][2]

\* a valid cached range that shares a point with the window [rs, re)
OverlapsWindow(r, rs, re) == r[1] < r[2] /\ r[1] < re /\ rs < r[2]

\* every point of the window [rs, re) lies in some valid range of the list
WindowCovered(ranges, rs, re) ==
    \A t \in rs .. re - 1 :
        \E i \in 1 .. Len(ranges) : ranges[i][1] <= t /\ t < ranges[i][2]

\* C24: for a valid window compute_missing_subranges returns the empty list iff the
\* valid cached ranges together contain the whole window, and returns the single
\* gap (start, end) iff no valid cached range overlaps the window.
C24_EmptyIffCoveredWholeIffDisjoint ==
    rout.status = "returned" =>
        /\ (rout.missing = <<>>) <=> WindowCovered(rq.cached, rq.start, rq.end)
        /\ (rout.missing = << <<rq.start, rq.end>> >>) <=>
               (\A i \in 1 .. Len(rq.cached) :
                   ~OverlapsWindow(rq.cached[i], rq.start, rq.end))

\* C24 witness: a window covered by two exactly adjacent ranges given out of order,
\* neither of which covers it alone
C24_Witness ==
    /\ rout.status = "returned"
    /\ rout.missing = <<>>
    /\ Len(rq.cached) = 2
    /\ rq.cached[2][2] = rq.cached[1][1]
    /\ rq.start = rq.cached[2][1] /\ rq.end = rq.cached[1][2]
    /\ rq.cached[2][1] < rq.cached[2][2] /\ rq.cached[1][1] < rq.cached[1][2]

\* C24: the other case, one gap equal to the window although a valid cached range
\* lies next to it on each side
C24_WitnessWholeWindow ==
    /\ rout.status = "returned"
    /\ rout.missing = << <<rq.start, rq.end>> >>
    /\ Len(rq.cached) = 2
    /\ rq.cached[1][1] < rq.cached[1][2] /\ rq.cached[1][2] = rq.start
    /\ rq.cached[2][1] = rq.end /\ rq.cached[2][1] < rq.cached[2][2]

\* the lists that hold the elements of ranges in some order
PermutationsOf(ranges) ==
    LET n == Len(ranges)
        bij == {f \in [1 .. n -> 1 .. n] : \A i, j \in 1 .. n : f[i] = f[j] => i = j}
    IN  {[i \in 1 .. n |-> ranges[f[i]]] : f \in bij}

\* C25: _normalize_ranges returns valid ranges, each starting strictly after the
\* previous one ends (so sorted, disjoint and non-adjacent), covering exactly the
\* points of the valid input ranges; every permutation of the input gives the same
\* list, and normalizing the result returns it unchanged.
C25_NormalizedCanonical ==
    rout.status # "none" =>
        LET n == rout.normalized
        IN  /\ \A i \in 1 .. Len(n) : n[i][1] < n[i][2]
            /\ \A i \in 1 .. Len(n) - 1 : n[i][2] < n[i + 1][1]
            /\ CoveredBy(n) = CoveredBy(rq.cached)
            /\ \A p \in PermutationsOf(rq.cached) : normalize_ranges(p) = n
            /\ normalize_ranges(n) = n

\* C25 witness: two exactly adjacent ranges given out of order, merged into one
C25_Witness ==
    /\ rout.status # "none"
    /\ Len(rq.cached) = 2
    /\ rq.cached[2][1] < rq.cached[2][2] /\ rq.cached[1][1] < rq.cached[1][2]
    /\ rq.cached[2][2] = rq.cached[1][1]
    /\ rout.normalized = << <<rq.cached[2][1], rq.cached[1][2]>> >>

\* ------------------------------------------------------------------------
\* Properties of the orchestrator
\* ------------------------------------------------------------------------
\* the decision and the window of the run in progress, or of the last run
CurDecision == IF run.pc # "idle" THEN run.decision ELSE result.decision
CurRs == IF run.pc # "idle" THEN run.rs ELSE result.rs
CurRe == IF run.pc # "idle" THEN run.re ELSE result.re
RunEnded == run.pc = "idle" /\ result.status # "none"

IsPrefix(a, b) == Len(a) <= Len(b) /\ SubSeq(b, 1, Len(a)) = a

\* the segments on disk when the run started, those overlapping its window, and
\* the gaps of its window computed from them
SegmentsAtStart == list_segments(hist.diskAtStart)
OverlappingAtStart == SelectSeq(SegmentsAtStart, LAMBDA seg : Overlaps(seg, CurRs, CurRe))
GapsAtStart == compute_missing_subranges(CurRs, CurRe, SegmentsAtStart)

\* C2: in a partial run the remote fetches are exactly the gaps of the window,
\* one fetch per gap with the gap's exact bounds, in ascending order, one after
\* another (the fetches made so far are always a prefix of the gap list), and no
\* fetch overlaps a range that was cached when the run started.
C2_PartialFetchesAreTheGaps ==
    CurDecision = "partial" =>
        /\ IsPrefix(hist.fetchLog, GapsAtStart)
        /\ (result.status = "returned" => hist.fetchLog = GapsAtStart)
        /\ run.pc = "write" => w.seg = hist.fetchLog[Len(hist.fetchLog)]
        /\ \A i \in 1 .. Len(hist.fetchLog) : \A j \in 1 .. Len(SegmentsAtStart) :
              ~Overlaps(SegmentsAtStart[j], hist.fetchLog[i][1], hist.fetchLog[i][2])

\* a partial run returned after fetching two gaps around a cached segment
C2_Witness ==
    /\ result.status = "returned"
    /\ result.decision = "partial"
    /\ Len(hist.fetchLog) = 2
    /\ hist.fetchLog[1][2] < hist.fetchLog[2][1]
    /\ result.raw_events_seen = 2

\* C3: when the segments overlapping the window cover it completely (hit), run
\* fetches nothing and returns cache_hit = true, cache_partial = false,
\* rows_processed = the summed row counts of the overlapping segments and
\* segments_used = their number (every segment being readable).
C3_HitReturnsCachedRows ==
    (RunEnded /\ result.decision = "hit" /\ hist.unreadable = <<>>) =>
        /\ hist.fetchLog = <<>>
        /\ result.status = "returned"
        /\ result.cache_hit
        /\ ~result.cache_partial
        /\ result.rows_processed = SumRows(hist.diskAtStart, OverlappingAtStart)
        /\ result.segments_used = Len(OverlappingAtStart)

\* C4: when no segment overlaps the window (miss), run issues exactly one fetch,
\* for exactly the requested (start, end), and returns cache_hit = false,
\* cache_partial = false and rows_processed = the rows written for that fetch.
C4_MissFetchesWholeWindowOnce ==
    (CurDecision \notin {"none", "bypassed"} /\ OverlappingAtStart = <<>>) =>
        /\ CurDecision = "miss"
        /\ IsPrefix(hist.fetchLog, <<(<<CurRs, CurRe>>)>>)
        /\ result.status = "returned" =>
              /\ hist.fetchLog = <<(<<CurRs, CurRe>>)>>
              /\ ~result.cache_hit
              /\ ~result.cache_partial
              /\ result.rows_processed = count_rows(disk[<<CurRs, CurRe>>])

\* a miss returned the rows it wrote while an older segment lies outside its window
C4_Witness ==
    /\ result.status = "returned"
    /\ result.decision = "miss"
    /\ result.rows_processed >= 1
    /\ Len(SegmentsAtStart) >= 1

\* C5: a second run with the same arguments against a cache that covers the
\* window fetches nothing and returns the rows_processed of the first run.
C5_SecondRunSameRows ==
    (/\ RunEnded
     /\ hist.prev.status = "returned"
     /\ hist.prev.decision # "bypassed"
     /\ result.decision # "bypassed"
     /\ hist.unreadable = <<>>
     /\ GapsAtStart = <<>>) =>
        /\ hist.fetchLog = <<>>
        /\ result.status = "returned"
        /\ result.rows_processed = hist.prev.rows_processed

\* every event the remote holds in the range sub is a row of sub's segment
CacheHoldsAll(sub) ==
    \A t \in sub[1] .. (sub[2] - 1) :
        t \in remote => \E i \in 1 .. Len(Flatten(disk[sub])) : Flatten(disk[sub])[i] = EventAt(t)

\* C6: after a run stopped with some but not all parts of a sub-window's segment
\* flushed, a re-run with the same window that no fetch failure, write failure
\* or interruption cuts short ends with the cache holding all events of that
\* sub-window.
C6_RerunCompletesPartialSegment ==
    (/\ RunEnded
     /\ hist.prev.stopped_in # <<>>
     /\ hist.prev.decision # "bypassed"
     /\ result.decision # "bypassed"
     /\ (result.status = "returned" \/ result.error = "UnboundLocalError")) =>
        CacheHoldsAll(hist.prev.stopped_in)

\* the ranges the fetches of the current run asked for
Fetched == {hist.fetchLog[i] : i \in 1 .. Len(hist.fetchLog)}

\* C7 (state part): after a run that raised with gaps already written, the
\* written segments are on disk, and a re-run with the same window fetches only
\* gaps that are still missing, none of them a gap the failed run wrote.
C7_RerunFetchesOnlyMissing ==
    /\ (RunEnded /\ result.status = "raised") => \A g \in hist.written : disk[g] # <<>>
    /\ (hist.prev.status = "raised" /\ hist.prev.written # {}
           /\ CurDecision \notin {"none", "bypassed"}) =>
          /\ Fetched \cap hist.prev.written = {}
          /\ Fetched \subseteq {GapsAtStart[i] : i \in 1 .. Len(GapsAtStart)}

\* C7 (step part): a step in which the run fails returns no result and changes
\* nothing on disk, and no step of a run changes a segment the run has written.
C7_FailureStepKeepsDisk ==
    /\ (run.pc # "idle" /\ run'.pc = "idle" /\ result'.status # "returned") =>
          (result'.status \in {"raised", "interrupted"} /\ disk' = disk)
    /\ hist'.runs = hist.runs => \A g \in hist.written : disk'[g] = disk[g]

\* C7: if the fetch or the write of a later gap fails, the run raises, the
\* segments written for earlier gaps stay on disk unchanged, and a re-run with
\* the same window fetches only the gaps still missing.
C7_FailureKeepsEarlierSegments ==
    [](C7_RerunFetchesOnlyMissing) /\ [][C7_FailureStepKeepsDisk]_vars

\* a re-run returned after fetching the one gap that the failed run left missing
C7_Witness ==
    /\ hist.prev.status = "raised"
    /\ hist.prev.written # {}
    /\ result.status = "returned"
    /\ Len(hist.fetchLog) = 1
    /\ \A g \in hist.prev.written : disk[g] # <<>>

\* the rows of segment seg whose event lies at time point t
RowsAt(seg, t) == Len(SelectSeq(Flatten(disk[seg]), LAMBDA ev : ev.timestamp = t))

\* the most rows any one segment on disk holds for time point t
MaxRowsAt(t) ==
    LET counts == {RowsAt(seg, t) : seg \in Windows}
    IN  CHOOSE m \in counts : \A n \in counts : m >= n

\* the rows of the cache with the common time ranges of overlapping segments
\* counted once
RECURSIVE RowsCountedOnce(_)
RowsCountedOnce(t) == IF t < 0 THEN 0 ELSE MaxRowsAt(t) + RowsCountedOnce(t - 1)

\* C8: rows_processed of a hit or partial run counts every cached row at most
\* once, also when two segments that overlap the window overlap each other.
C8_NoDoubleCount ==
    (result.status = "returned" /\ result.decision \in {"hit", "partial"}) =>
        result.rows_processed <= RowsCountedOnce(MaxT)

\* a counter of a result, 0 where the result carries none
Counter(x) == IF x = None THEN 0 ELSE x

\* C9: every result of a run that fetched satisfies raw_events_seen =
\* rows_processed + duplicates_dropped with dedup enabled, and
\* duplicates_dropped = 0 and rows_processed = raw_events_seen with it disabled.
C9_DedupAccounting ==
    (result.status = "returned" /\ hist.fetchLog # <<>>) =>
        IF cfg.dedupe_events
        THEN Counter(result.raw_events_seen)
                 = result.rows_processed + Counter(result.duplicates_dropped)
        ELSE /\ Counter(result.duplicates_dropped) = 0
             /\ result.rows_processed = Counter(result.raw_events_seen)

\* ------------------------------------------------------------------------
\* Properties of the streaming segment writer
\* ------------------------------------------------------------------------
\* the (log_id, sequence number) pair an event carries, the sequence number in its
\* string form; defined only for events that carry both
HasPair(ev) == ev.log_id.some /\ (ev.sequence_number_str.some \/ ev.sequence_number # None)
PairOf(ev) == <<ev.log_id.v, EventSeq(ev).v>>

\* an earlier event of the same write carried the same pair
RepeatsEarlierPair(evs, i) ==
    /\ HasPair(evs[i])
    /\ \E j \in 1 .. (i - 1) : HasPair(evs[j]) /\ PairOf(evs[j]) = PairOf(evs[i])

\* the events of evs, in order, that repeat no earlier pair
RECURSIVE KeptFrom(_, _)
KeptFrom(evs, i) ==
    IF i > Len(evs) THEN <<>>
    ELSE (IF RepeatsEarlierPair(evs, i) THEN <<>> ELSE <<evs[i]>>) \o KeptFrom(evs, i + 1)

\* ceil(n / k) for k >= 1
Ceil(n, k) == (n + k - 1) \div k

\* C11: for flush_rows = k and N events accepted (after dedup) by one segment
\* write, the write makes ceil(N / k) part files, 0 when N = 0, for every split
\* of the events over pages: the count it returns and the parts in the segment
\* directory both equal ceil(N / k), and no part holds more than k rows.
C11_PartsAreCeilOfAccepted ==
    w.pc = "returned" =>
        /\ WriterReturn(w).parts_written = Ceil(w.rows_processed, cfg.flush_rows)
        /\ Len(disk[w.seg]) = Ceil(w.rows_processed, cfg.flush_rows)
        /\ count_rows(disk[w.seg]) = w.rows_processed
        /\ \A i \in 1 .. Len(disk[w.seg]) :
              Len(disk[w.seg][i]) >= 1 /\ Len(disk[w.seg][i]) <= cfg.flush_rows

\* three events accepted over two pages with flush_rows = 2: a full part and a
\* final part of one row
C11_Witness ==
    /\ w.pc = "returned"
    /\ cfg.flush_rows = 2
    /\ w.rows_processed = 3
    /\ Len(disk[w.seg]) = 2
    /\ Len(win[1]) = 1

\* C10: within one segment write with dedup enabled an event is dropped iff it
\* carries both log_id and a sequence number and an earlier event of the write
\* carried the same pair; events missing a field are always written, different
\* pairs never suppress each other, and the written rows keep the arrival order.
C10_DroppedIffSamePairEarlier ==
    (w.pc = "returned" /\ cfg.dedupe_events) =>
        Flatten(disk[w.seg]) = KeptFrom(Flatten(win), 1)

\* the response handled last is a poll response that says "in progress"
PollAnsweredInProgress ==
    /\ api.polls >= 1
    /\ api.resp.status = 200
    /\ is_query_in_progress(api.resp) = "yes"

\* C12: while one page is polled, at most poll_max_iterations poll responses
\* are accepted, and the polling goes on only while fewer than
\* poll_max_iterations responses said "in progress" and the time since the
\* polling began, as measured when a response arrives, does not exceed
\* poll_max_wall_seconds; an in-progress poll response raises TimeoutError
\* exactly when one of the two limits is reached, whatever the other one is.
C12_PollLimitsRaiseTimeout ==
    /\ api.polls <= api.lim.poll_max_iterations
    /\ api.pc = "poll" =>
          /\ api.poll_count < api.lim.poll_max_iterations
          /\ api.elapsed <= api.lim.poll_max_wall_seconds
    /\ (api.pc = "raised" /\ api.error = "TimeoutError")
          <=> /\ PollAnsweredInProgress
              /\ \/ api.poll_count >= api.lim.poll_max_iterations
                 \/ api.elapsed > api.lim.poll_max_wall_seconds

\* the wall-clock limit alone ends the polling
C12_Witness ==
    /\ api.pc = "raised" /\ api.error = "TimeoutError"
    /\ api.elapsed > api.lim.poll_max_wall_seconds
    /\ api.poll_count + 1 < api.lim.poll_max_iterations
    /\ api.page_num = 2

\* the iteration limit alone ends the polling
C12_IterationLimitAlone ==
    /\ api.pc = "raised" /\ api.error = "TimeoutError"
    /\ api.elapsed <= api.lim.poll_max_wall_seconds
    /\ api.poll_count = api.lim.poll_max_iterations
    /\ api.poll_count >= 2

\* the stuck-detection threshold of the configuration
StuckThreshold ==
    IF api.lim.poll_max_iterations \div 2 > StuckFloor
        THEN api.lim.poll_max_iterations \div 2
        ELSE StuckFloor

\* the number of consecutive in-progress poll responses, the last one
\* included, that carried the Self URL of the response before them (a
\* TimeoutError is raised before the response is counted)
SameSelfRun ==
    IF api.pc = "raised" /\ api.error = "TimeoutError" /\ api.resp.self = api.last_self_url
        THEN api.same_self_url_count + 1
        ELSE api.same_self_url_count

StuckRaised == api.pc = "raised" /\ api.error = "RuntimeError: stuck"

\* a poll response with a new Self URL sets the consecutive count to zero,
\* one with the same Self URL adds one to it
C13_SelfUrlStep ==
    (api.pc = "poll" /\ api'.pc = "poll" /\ api'.polls = api.polls + 1) =>
        /\ api'.last_self_url # api.last_self_url => api'.same_self_url_count = 0
        /\ api'.last_self_url = api.last_self_url =>
              api'.same_self_url_count = api.same_self_url_count + 1

\* C13 as stated: in every configuration, a Self URL repeated for the
\* threshold of consecutive polls raises the stuck-polling RuntimeError.
C13_StuckRaisedInEveryConfiguration ==
    (PollAnsweredInProgress /\ SameSelfRun >= StuckThreshold) => StuckRaised

\* C13 amended: a Self URL repeated for the threshold of consecutive polls
\* ends the polling at once; it raises the stuck-polling RuntimeError when
\* neither poll limit is reached at that response, and TimeoutError when one
\* is, which is always so when poll_max_iterations does not exceed the
\* threshold; the stuck-polling error is raised at the threshold only; a
\* poll response with a different Self URL resets the count to zero.
C13_StuckStateInv ==
    /\ (PollAnsweredInProgress /\ SameSelfRun >= StuckThreshold) =>
          /\ api.pc = "raised"
          /\ SameSelfRun = StuckThreshold
          /\ IF \/ api.poll_count >= api.lim.poll_max_iterations
                \/ api.elapsed > api.lim.poll_max_wall_seconds
                 THEN api.error = "TimeoutError"
                 ELSE api.error = "RuntimeError: stuck"
    /\ StuckRaised =>
          /\ PollAnsweredInProgress
          /\ SameSelfRun = StuckThreshold
          /\ api.lim.poll_max_iterations > StuckThreshold
    /\ api.lim.poll_max_iterations <= StuckThreshold => ~StuckRaised

C13_StuckRaisedUnlessLimitFirst ==
    [](C13_StuckStateInv) /\ [][C13_SelfUrlStep]_vars

C13_Witness ==
    /\ StuckRaised
    /\ api.same_self_url_count = StuckFloor
    /\ api.page_num = 2

\* this step completes a page whose Next URL is the one followed to obtain it
RepeatedNextPageCompletes ==
    /\ Len(api'.pages) = Len(api.pages) + 1
    /\ api.last_next_url # None
    /\ api'.pages[Len(api'.pages)].next = api.last_next_url

NotAdvancingRaised ==
    api.pc = "raised" /\ api.error = "RuntimeError: pagination did not advance"

C14_RaisedAfterTwoPages == NotAdvancingRaised => Len(api.pages) >= 2

C14_RepeatStepAsStated ==
    RepeatedNextPageCompletes =>
        /\ api'.pc = "raised"
        /\ api'.error = "RuntimeError: pagination did not advance"

\* C14 as stated: a completed page whose Next URL is the one that was
\* followed to obtain it raises the pagination-not-advancing RuntimeError at
\* once, and that error is raised only after at least two pages.
C14_RepeatedNextRaisesNotAdvancing ==
    [](C14_RaisedAfterTwoPages) /\ [][C14_RepeatStepAsStated]_vars

C14_RepeatStep ==
    RepeatedNextPageCompletes =>
        /\ api'.pc = "raised"
        /\ api'.error = IF api.page_num >= api.lim.max_pages
                            THEN "RuntimeError: max_pages"
                            ELSE "RuntimeError: pagination did not advance"

\* C14 amended: such a page makes fetch_logs raise at once, without a
\* further request: the pagination-not-advancing RuntimeError when the page
\* number is below max_pages, the page-limit RuntimeError when it has reached
\* max_pages; the pagination-not-advancing error is raised only after at
\* least two pages.
C14_RepeatedNextRaisesAtOnce ==
    [](C14_RaisedAfterTwoPages) /\ [][C14_RepeatStep]_vars

C14_Witness ==
    /\ NotAdvancingRaised
    /\ Len(api.pages) = 2
    /\ api.pages[1].next = api.pages[2].next
    /\ api.polls >= 1

PageLimitRaised == api.pc = "raised" /\ api.error = "RuntimeError: max_pages"

\* this step completes page number max_pages, and the page carries a Next link
LimitPageCompletesWithNext ==
    /\ Len(api'.pages) = Len(api.pages) + 1
    /\ Len(api'.pages) = api.lim.max_pages
    /\ api'.pages[Len(api'.pages)].next # None

C15_LimitStep ==
    LimitPageCompletesWithNext =>
        /\ api'.pc = "raised"
        /\ api'.error = "RuntimeError: max_pages"

C15_AtMostMaxPages ==
    /\ Len(api.pages) <= api.lim.max_pages
    /\ api.page_num <= api.lim.max_pages
    /\ api.pc = "next_seed" => Len(api.pages) < api.lim.max_pages
    /\ PageLimitRaised =>
          /\ Len(api.pages) = api.lim.max_pages
          /\ api.pages[Len(api.pages)].next # None

\* C15: one fetch_logs call never holds more than max_pages pages and never
\* follows a Next link of page number max_pages: completing that page with a
\* Next link raises the page-limit RuntimeError; this also ends a pagination
\* whose Next URLs alternate and so never repeat the URL followed last.
C15_PageLimitBoundsPagination ==
    [](C15_AtMostMaxPages) /\ [][C15_LimitStep]_vars

\* the remote alternated between two Next URLs until the page limit
C15_Witness ==
    /\ PageLimitRaised
    /\ Len(api.pages) = 3
    /\ api.pages[1].next # api.pages[2].next
    /\ api.pages[3].next = api.pages[1].next

\* this step handles the first 429 of the call (an earlier 429 would have
\* been counted in attempts at the submit step or have ended the call)
First429Received ==
    /\ api.attempts = 0
    /\ api.resp.status # 429
    /\ api'.resp.status = 429

C16_First429Step ==
    First429Received =>
        /\ api'.pc = api.pc
        /\ api'.error = ""
        /\ api'.pages = api.pages

\* C16: a 429 is handled alike at the submit, poll and next-page steps: it
\* adds no page, the same request is issued again and the call goes on; the
\* first 429 of a call never makes fetch_logs raise.
C16_Single429NeverFails == [][C16_First429Step]_vars

\* the run ended by itself: the remote, the disk and the process did not fail
EndedUndisturbed ==
    /\ RunEnded
    /\ ~(result.status = "raised" /\ result.error = "")
    /\ result.status # "interrupted"

\* the events the remote holds in the window of the run
RemoteEventsOfWindow == EventsIn(remote, CurRs, CurRe)

\* C17: a bypass run issues exactly one remote fetch, for the whole window,
\* whatever the cache holds, and returns the rows of that fetch with
\* cache_hit = false.
C17_BypassBehavesAsMiss ==
    /\ CurDecision = "bypassed" => IsPrefix(hist.fetchLog, <<(<<CurRs, CurRe>>)>>)
    /\ (EndedUndisturbed /\ result.decision = "bypassed") =>
          /\ hist.fetchLog = <<(<<result.rs, result.re>>)>>
          /\ result.status = "returned"
          /\ result.cache_hit = FALSE
          /\ result.rows_processed >= Len(RemoteEventsOfWindow)
          /\ cfg.dedupe_events => result.rows_processed = Len(RemoteEventsOfWindow)

\* C18: a bypass run leaves the cache as it found it: while it runs and when
\* it has ended, every segment directory holds the parts it held when the run
\* started, so a later run lists the same cached ranges.
C18_BypassLeavesCacheUnchanged ==
    CurDecision = "bypassed" =>
        /\ disk = hist.diskAtStart
        /\ list_segments(disk) = SegmentsAtStart

\* a segment that overlaps the window of the run cannot be opened
UsedSegmentUnreadable == run.pc = "idle" /\ hist.unreadable # <<>>

\* C19: a run with the cache enabled that decides hit or partial on a segment
\* it cannot read raises and returns no result; a bypass run is never aborted
\* by an unreadable segment: it returns a result.
C19_UnreadableFatalUnlessBypass ==
    /\ (RunEnded /\ UsedSegmentUnreadable /\ result.decision \in {"hit", "partial"}) =>
          /\ result.status = "raised"
          /\ hist.fetchLog = <<>>
    /\ (EndedUndisturbed /\ UsedSegmentUnreadable /\ result.decision = "bypassed") =>
          result.status = "returned"

\* the part of C19 about runs with the cache enabled
C19_UnreadableFatal ==
    (RunEnded /\ UsedSegmentUnreadable /\ result.decision \in {"hit", "partial"}) =>
        /\ result.status = "raised"
        /\ result.error = "RuntimeError"
        /\ hist.fetchLog = <<>>
        /\ disk = hist.diskAtStart

C19_PartialOnUnreadable ==
    /\ RunEnded /\ UsedSegmentUnreadable
    /\ result.decision = "partial" /\ result.error = "RuntimeError"

\* every remote fetch the run has made so far found no event in its range
EveryFetchEmpty ==
    /\ hist.fetchLog # <<>>
    /\ \A i \in 1 .. Len(hist.fetchLog) :
          EventsIn(remote, hist.fetchLog[i][1], hist.fetchLog[i][2]) = <<>>

AwaitingResponse(a) == a.pc \in {"submit", "poll", "next_seed"}

\* the running GET failed once more in this step
GetFailedStep == AwaitingResponse(api) /\ api'.get_attempts = api.get_attempts + 1

\* the running GET was answered in this step
GetAnsweredStep == AwaitingResponse(api) /\ api' # api /\ ~GetFailedStep

\* C26, steps: a failed attempt that is not the retry_attempts-th leaves the call
\* at the same request, the retry_attempts-th raises the connection error or
\* timeout; an answer on any attempt is the response handled, and ends the GET.
C26_RetryStep ==
    [][/\ GetFailedStep =>
            IF api'.get_attempts = api.lim.retry_attempts
            THEN api'.pc = "raised" /\ api'.error \in {"ConnectionError", "Timeout"}
            ELSE /\ api'.pc = api.pc
                 /\ api' = [api EXCEPT !.get_attempts = @ + 1]
       /\ GetAnsweredStep =>
            /\ api'.get_attempts = 0
            /\ api'.resp.status # 0
            /\ api.resp # api'.resp \/ api'.pc # api.pc \/ api'.attempts # api.attempts
                  \/ api'.polls # api.polls
       /\ api.pc \in {"raised", "returned"} => api' = api]_vars

\* C26: a GET that fails with a connection error or a timeout is retried; at the
\* retry_attempts-th consecutive failure the error is raised and nothing more is
\* requested; a success on any attempt is returned at once.
C26_RequestRetriedUpToRetryAttempts ==
    /\ [](/\ api.get_attempts <= api.lim.retry_attempts
          /\ AwaitingResponse(api) => api.get_attempts < api.lim.retry_attempts
          /\ (api.pc = "raised" /\ api.error \in {"ConnectionError", "Timeout"})
                => api.get_attempts = api.lim.retry_attempts)
    /\ C26_RetryStep

\* C26 witness: after the submit and one poll were answered, the next poll
\* request failed retry_attempts = 2 times in a row and the timeout was raised
C26_Witness ==
    /\ api.pc = "raised"
    /\ api.error = "Timeout"
    /\ api.lim.retry_attempts = 2
    /\ api.get_attempts = 2
    /\ api.polls = 1
    /\ api.page_num = 1

\* ------------------------------------------------------------------------
\* Properties of the links of a response
\* ------------------------------------------------------------------------
\* a 200 response whose links value is not a list, or holds an entry that is not
\* an object with rel and href, or holds entries none of which is Self or Next
MalformedResponse(r) ==
    /\ r.status = 200
    /\ \/ r.links \in {"bad_entry", "non_list", "empty_non_list"}
       \/ r.links = "list" /\ r.other /\ r.self = None /\ r.next = None

\* C21: a response with malformed links makes fetch_logs raise ValueError at the
\* step that receives it (submit, poll or pagination); it is never one of the
\* collected pages and never starts or continues polling.
C21_MalformedLinksRaiseValueError ==
    /\ MalformedResponse(api.resp) => (api.pc = "raised" /\ api.error = "ValueError")
    /\ \A i \in 1 .. Len(api.pages) : ~MalformedResponse(api.pages[i])

\* C21 restricted to the links values Python counts as true
C21_TruthyMalformedLinksRaise ==
    /\ (MalformedResponse(api.resp) /\ api.resp.links # "empty_non_list")
            => (api.pc = "raised" /\ api.error = "ValueError")
    /\ \A i \in 1 .. Len(api.pages) :
            MalformedResponse(api.pages[i]) => api.pages[i].links = "empty_non_list"

\* a 200 response that carries both a Self link and a Next link
SelfAndNext(r) == r.status = 200 /\ r.links = "list" /\ r.self # None /\ r.next # None

\* C22: a page with both a Self and a Next link makes fetch_logs raise at the
\* step that receives it; it is neither polled nor collected as a page.
C22_SelfAndNextRejected ==
    /\ SelfAndNext(api.resp) => api.pc = "raised"
    /\ \A i \in 1 .. Len(api.pages) : ~SelfAndNext(api.pages[i])

\* C22: what the code does instead, the Self link wins and the page is polled
\* (or the call ends on a limit of the polling loop); the Next link is ignored
C22_SelfAndNextPolled ==
    /\ SelfAndNext(api.resp) =>
          \/ api.pc = "poll" /\ api.last_self_url = api.resp.self
          \/ api.pc = "raised" /\ api.error \in {"TimeoutError", "RuntimeError: stuck",
                                                 "ConnectionError", "Timeout"}
    /\ \A i \in 1 .. Len(api.pages) : ~SelfAndNext(api.pages[i])

\* ------------------------------------------------------------------------
\* Properties of the returned payload
\* ------------------------------------------------------------------------
\* C30, steps: the list of pages changes only by appending the response just
\* handled, and a call that raised or returned changes nothing any more.
C30_PagesAppendOnly ==
    [][/\ api'.pages = api.pages \/ api'.pages = Append(api.pages, api'.resp)
       /\ api.pc \in {"raised", "returned"} => api'.pages = api.pages]_vars

\* C30: every collected page is a completed page (no Self link), the pages are
\* kept in the order of their completion, every page but the last of a returned
\* payload has a Next link and the last has none; a call that could not complete
\* the page it was fetching has raised, it never returns what it collected.
C30_ReturnedPagesComplete ==
    /\ [](/\ \A i \in 1 .. Len(api.pages) :
                api.pages[i].status = 200 /\ "Self" \notin links_map(api.pages[i])
          /\ api.pc = "returned" =>
                /\ Len(api.pages) >= 1
                /\ Len(api.pages) = api.page_num
                /\ "Next" \notin links_map(api.pages[Len(api.pages)])
                /\ \A i \in 1 .. Len(api.pages) - 1 : "Next" \in links_map(api.pages[i])
                /\ api.resp = api.pages[Len(api.pages)]
                /\ api.error = ""
          /\ api.pc = "raised" => api.error # "")
    /\ C30_PagesAppendOnly

\* C30 witness: three pages returned, the last one completed by a poll
C30_Witness ==
    /\ api.pc = "returned"
    /\ Len(api.pages) = 3
    /\ api.pages[1].next # api.pages[2].next
    /\ api.polls >= 1

\* C30: the other outcome, a call that raised while it held two completed pages
C30_WitnessRaisedWithPages ==
    /\ api.pc = "raised"
    /\ api.error = "TimeoutError"
    /\ Len(api.pages) = 2

\* ------------------------------------------------------------------------
\* Termination of fetch_logs
\* ------------------------------------------------------------------------
ClientDone == api.pc \in {"returned", "raised"}

\* An upper bound on the calls of session.get a fetch_logs call in state a can
\* still make: the attempts left for the running GET, the GETs left in the
\* running loop, and retry_attempts attempts for every GET of every later page
\* (one Next-URL request and poll_max_iterations polls per page).
RequestsLeft(a) ==
    LET R == a.lim.retry_attempts
        P == a.lim.poll_max_iterations
        M == a.lim.max_pages
        perPage == R + P * R
        running == R - a.get_attempts
    IN  IF a.pc = "submit"
            THEN running + (R - a.attempts) * R + P * R + (M - 1) * perPage
        ELSE IF a.pc = "poll"
            THEN running + (P - a.poll_count - 1) * R + (M - a.page_num) * perPage
        ELSE IF a.pc = "next_seed"
            THEN running + P * R + (M - a.page_num) * perPage
        ELSE 0

\* the bound on the requests of a whole call
RequestBound(lim) ==
    lim.retry_attempts
        * (lim.retry_attempts + 1 + lim.max_pages * lim.poll_max_iterations
               + (lim.max_pages - 1))

\* C29, counters: the loops of fetch_logs stay within the configured limits
C29_CountersBounded ==
    /\ api.get_attempts <= api.lim.retry_attempts
    /\ api.attempts <= api.lim.retry_attempts + 1
    /\ api.page_num <= api.lim.max_pages
    /\ api.poll_count <= api.lim.poll_max_iterations
    /\ ~ClientDone =>
          /\ api.get_attempts < api.lim.retry_attempts
          /\ api.attempts <= api.lim.retry_attempts
          /\ api.pc = "poll" => api.poll_count < api.lim.poll_max_iterations
    /\ RequestsLeft(api) >= 0
    /\ RequestsLeft(api) <= RequestBound(api.lim)

\* C29, steps: every request (answered or failed) lowers the number of requests
\* the call can still make, and a finished call requests nothing
C29_EveryRequestCounts ==
    [][RequestsLeft(api') < RequestsLeft(api) /\ ~ClientDone]_vars

\* C29: whatever the remote answers (in progress for ever, Next links for ever,
\* 429 or a connection failure on every request), a fetch_logs call returns or
\* raises, after at most RequestBound requests, a number fixed by
\* retry_attempts, poll_max_iterations and max_pages.
C29_FetchTerminatesWithinBound ==
    /\ <>ClientDone
    /\ []C29_CountersBounded
    /\ C29_EveryRequestCounts

\* C29 witness: the call ended on the page limit after max_pages = 3 pages, the
\* last of which stayed in progress for a poll, with one 429 at the submit
C29_Witness ==
    /\ api.pc = "raised"
    /\ api.error = "RuntimeError: max_pages"
    /\ api.lim.max_pages = 3
    /\ Len(api.pages) = 3
    /\ api.polls >= 1
    /\ api.attempts = 1

\* ------------------------------------------------------------------------
\* Properties of the wait of a 429 response
\* ------------------------------------------------------------------------
RECURSIVE Pow10(_)
Pow10(n) == IF n = 0 THEN 1 ELSE 10 * Pow10(n - 1)

RECURSIVE StripLeadingZeros(_)
StripLeadingZeros(d) ==
    IF Len(d) > 1 /\ d[1] = "0" THEN StripLeadingZeros(Tail(d)) ELSE d

\* the string s is a decimal notation of the integer n
Denotes(s, n) ==
    LET neg == s # <<>> /\ s[1] = "-"
        body == IF neg THEN Tail(s) ELSE s
    IN  /\ body # <<>>
        /\ IF neg THEN n <= 0 ELSE n >= 0
        /\ StripLeadingZeros(body) = IntToStr(IF n < 0 THEN 0 - n ELSE n)

\* the integer a header value parses as: a set of one element, or none
HeaderInts(h) ==
    IF ~h.some THEN {}
    ELSE {n \in (0 - Pow10(MaxHeaderLen)) .. Pow10(MaxHeaderLen) : Denotes(h.v, n)}

\* C27: the wait raised with a 429 response is an integer in 1..60: the
\* Retry-After value if that is an integer, else the X-RateLimit-Reset value if
\* that is one, with no usable value or a value below 1 giving 1 and a value
\* above 60 giving 60.
C27_WaitFromHeadersWithinLimits ==
    rl.outcome = "RateLimitedException" =>
        LET ra == HeaderInts(rl.retry_after)
            used == IF ra # {} THEN ra ELSE HeaderInts(rl.reset)
        IN  /\ rl.secs \in 1 .. 60
            /\ used = {} => rl.secs = 1
            /\ \A n \in used :
                  rl.secs = IF n < 1 THEN 1 ELSE IF n > 60 THEN 60 ELSE n

\* C27 witness: Retry-After does not parse and X-RateLimit-Reset is above the
\* upper limit
C27_Witness ==
    /\ rl.outcome = "RateLimitedException"
    /\ rl.retry_after = Some(<<"x">>)
    /\ rl.reset = Some(<<"6", "1">>)
    /\ rl.secs = 60

\* C27: a Retry-After below the lower limit is used, not the X-RateLimit-Reset
C27_WitnessRetryAfterPreferred ==
    /\ rl.outcome = "RateLimitedException"
    /\ rl.retry_after = Some(<<"-", "1">>)
    /\ rl.reset = Some(<<"1", "6">>)
    /\ rl.secs = 1

\* ------------------------------------------------------------------------
\* Properties of the window check of run
\* ------------------------------------------------------------------------
\* C28: a run whose end_time is not after its start_time raises (ValueError)
\* before anything else happens: no remote fetch is issued, no cache decision is
\* computed (the cache root is not listed), no segment is read and none written.
C28_InvalidWindowRaisesBeforeIO ==
    (RunEnded /\ result.re <= result.rs) =>
        /\ result.status = "raised"
        /\ result.error = "ValueError"
        /\ hist.fetchLog = <<>>
        /\ result.decision = "none"
        /\ result.segments_used = NoResult.segments_used
        /\ result.rows_processed = NoResult.rows_processed
        /\ hist.unreadable = <<>>
        /\ hist.written = {}
        /\ disk = hist.diskAtStart

\* C28 witness: a run over an empty window refused although the cache holds a
\* segment that starts at its start point
C28_Witness ==
    /\ RunEnded
    /\ result.re = result.rs
    /\ result.status = "raised"
    /\ \E seg \in DOMAIN disk : disk[seg] # <<>> /\ seg[1] = result.rs

\* ------------------------------------------------------------------------
\* Row counts of a partial run
\* ------------------------------------------------------------------------
\* the segments now on disk that overlap the window of the run
OverlappingNow == SelectSeq(list_segments(disk), LAMBDA seg : Overlaps(seg, CurRs, CurRe))

\* C31: a partial run that has processed its gaps returns, whatever the gap
\* fetches yielded (gaps without events included), rows_processed = the summed
\* rows of every segment on disk overlapping the window (pre-existing and newly
\* written alike) and segments_used = the number of those segments.
C31_PartialCountsEveryOverlappingSegment ==
    (result.status = "returned" /\ result.decision = "partial") =>
        /\ result.rows_processed = SumRows(disk, OverlappingNow)
        /\ result.segments_used = Len(OverlappingNow)

\* the same for partial runs in which some gap fetch yielded an event
C31_HoldsWhenSomeGapHadEvents ==
    (/\ result.status = "returned"
     /\ result.decision = "partial"
     /\ hist.written # {}) =>
        /\ result.rows_processed = SumRows(disk, OverlappingNow)
        /\ result.segments_used = Len(OverlappingNow)

\* a partial run whose every gap fetch was empty returned zero rows and zero
\* segments although a cached segment with rows overlaps its window
C31_EmptyGapsDropCachedRows ==
    /\ result.status = "returned"
    /\ result.decision = "partial"
    /\ hist.fetchLog # <<>>
    /\ result.rows_processed = 0
    /\ result.segments_used = 0
    /\ SumRows(disk, OverlappingNow) >= 1

\* ------------------------------------------------------------------------
\* The read of the cached segments ahead of the fetches of a partial run
\* ------------------------------------------------------------------------
\* a run that decided partial found one of the overlapping segments unreadable
PartialOnUnreadable == hist.unreadable # <<>> /\ CurDecision = "partial"

\* such a run is over: it raised RuntimeError, fetched nothing and wrote nothing
C32_AbortedBeforeFetch ==
    PartialOnUnreadable =>
        /\ run.pc = "idle"
        /\ result.status = "raised"
        /\ result.error = "RuntimeError"
        /\ hist.fetchLog = <<>>
        /\ hist.written = {}
        /\ disk = hist.diskAtStart

\* the step that starts such a run is the step that ends it, and it leaves the
\* cache and the writer alone
C32_StartStep ==
    (run.pc = "idle" /\ hist'.runs = hist.runs + 1 /\ PartialOnUnreadable') =>
        /\ run'.pc = "idle"
        /\ hist'.fetchLog = <<>>
        /\ disk' = disk
        /\ w' = w

\* C32: in a partial decision the overlapping cached segments are read before
\* any remote fetch: when one of them is unreadable the run aborts at once, with
\* zero fetches made and no segment written.
C32_PartialReadsCacheBeforeFetch ==
    [](C32_AbortedBeforeFetch) /\ [][C32_StartStep]_vars

\* a partial run was aborted by an unreadable segment while its window still
\* had a gap holding an event at the remote
C32_Witness ==
    /\ RunEnded
    /\ PartialOnUnreadable
    /\ result.error = "RuntimeError"
    /\ \E i \in 1 .. Len(GapsAtStart) :
          EventsIn(remote, GapsAtStart[i][1], GapsAtStart[i][2]) # <<>>

\* ------------------------------------------------------------------------
\* The parts of one segment write
\* ------------------------------------------------------------------------
\* the events of evs from the i-th on that the write accepts, seen being the
\* dedupe keys of the events accepted before
RECURSIVE AcceptedFrom(_, _, _)
AcceptedFrom(evs, i, seen) ==
    IF i > Len(evs) THEN <<>>
    ELSE LET key == event_dedupe_key(evs[i])
         IN  IF cfg.dedupe_events /\ key.some
             THEN IF key.v \in seen THEN AcceptedFrom(evs, i + 1, seen)
                  ELSE <<evs[i]>> \o AcceptedFrom(evs, i + 1, seen \cup {key.v})
             ELSE <<evs[i]>> \o AcceptedFrom(evs, i + 1, seen)

\* the events the write has taken from its pages so far, and those it accepted
EventsTaken == SubSeq(Flatten(win), 1, w.raw_events_seen)
AcceptedSoFar == AcceptedFrom(EventsTaken, 1, {})

\* the parts of the segment and the buffer hold the accepted events, in order;
\* the parts are those numbered 0 .. part_idx - 1; every part holds exactly
\* flush_rows rows, but the last part of a finished write, which holds 1 ..
\* flush_rows; the buffer holds fewer than flush_rows events between two events
\* and at most flush_rows when an event has just been appended
C33_PartsAndBuffer ==
    w.pc # "idle" =>
        /\ Flatten(disk[w.seg]) \o (IF w.pc = "returned" THEN <<>> ELSE w.buffer)
              = AcceptedSoFar
        /\ Len(disk[w.seg]) = w.part_idx
        /\ \A i \in 1 .. Len(disk[w.seg]) :
              IF w.pc = "returned" /\ i = Len(disk[w.seg])
              THEN Len(disk[w.seg][i]) >= 1 /\ Len(disk[w.seg][i]) <= cfg.flush_rows
              ELSE Len(disk[w.seg][i]) = cfg.flush_rows
        /\ Len(w.buffer) <= cfg.flush_rows
        /\ (w.pc = "loop" /\ DropEmptyPages(w.pages) # <<>>) =>
              Len(AcceptEvent(w, cfg).buffer) <= cfg.flush_rows

\* a step that writes a part writes the part numbered by the count of parts
\* already in the directory, leaves the earlier parts as they are, and moves
\* the part index on by one
C33_FlushStep ==
    (w.pc = "loop" /\ disk' # disk) =>
        /\ w.part_idx = Len(disk[w.seg])
        /\ w'.part_idx = w.part_idx + 1
        /\ Len(disk'[w.seg]) = Len(disk[w.seg]) + 1
        /\ SubSeq(disk'[w.seg], 1, Len(disk[w.seg])) = disk[w.seg]
        /\ \A seg \in Windows \ {w.seg} : disk'[seg] = disk[seg]

\* C33: within one segment write the parts are numbered 0, 1, 2, ... with no
\* gap and no repeat, every part but the last holds exactly flush_rows rows and
\* the last holds 1 .. flush_rows rows, the buffer never holds more than
\* flush_rows events, and the rows of all parts are exactly the accepted events.
C33_PartsNumberedAndFilled ==
    [](C33_PartsAndBuffer) /\ [][C33_FlushStep]_vars

\* a finished write of three accepted events with flush_rows = 2, the flush
\* falling inside the second page: a full part 0 and a part 1 of one row
C33_Witness ==
    /\ w.pc = "returned"
    /\ cfg.flush_rows = 2
    /\ Len(win[1]) = 1
    /\ Len(AcceptedSoFar) = 3
    /\ Len(disk[w.seg]) = 2
    /\ Len(disk[w.seg][1]) = 2
    /\ Len(disk[w.seg][2]) = 1

\* ------------------------------------------------------------------------
\* Sub-windows whose fetch yielded no event
\* ------------------------------------------------------------------------
\* the time points the current run fetches, or would fetch, from the remote
PointsToFetch ==
    IF CurDecision = "hit" THEN {}
    ELSE UNION {PointsOf(GapsAtStart[i]) : i \in 1 .. Len(GapsAtStart)}

\* the sub-window sub lies inside the window of the current run
InsideWindow(sub) == CurRs <= sub[1] /\ sub[2] <= CurRe

\* the current run has the cache enabled and has taken its cache decision
CacheEnabledRun == CurDecision \in {"hit", "partial", "miss"}

\* an empty fetch of the current run has left the directory of its sub-window
\* as it was, and no segment has a range whose fetch yielded no event
C39_EmptyFetchLeavesNoSegment ==
    /\ \A i \in 1 .. Len(hist.fetchLog) :
          hist.fetchLog[i] \in hist.emptied =>
              disk[hist.fetchLog[i]] = hist.diskAtStart[hist.fetchLog[i]]
    /\ \A sub \in hist.emptied : disk[sub] = <<>>

\* the claim as stated: an emptied sub-window inside the window of a later run
\* with the cache enabled is fetched again by that run, and a window with no event
\* at the remote is never decided a hit
C39_EmptySubwindowAlwaysRefetched ==
    /\ C39_EmptyFetchLeavesNoSegment
    /\ \A sub \in hist.emptied :
          (CacheEnabledRun /\ InsideWindow(sub)) => PointsOf(sub) \subseteq PointsToFetch
    /\ (CacheEnabledRun /\ EventsIn(remote, CurRs, CurRe) = <<>>) => CurDecision # "hit"

\* C39 (amended): a sub-window whose fetch yields zero events leaves no segment
\* behind; a later run with the cache enabled whose window includes it fetches
\* again every time point of it that no segment covers, and all of it when no
\* segment overlaps it; the segments that cover the rest were written for windows
\* that do hold events at the remote; a window with no event at the remote is a
\* hit only through such segments, which reach beyond the window.
C39_EmptySubwindowRefetchedUnlessCovered ==
    /\ C39_EmptyFetchLeavesNoSegment
    /\ \A i \in 1 .. Len(list_segments(disk)) :
          LET seg == list_segments(disk)[i]
          IN  EventsIn(remote, seg[1], seg[2]) # <<>>
    /\ \A sub \in hist.emptied :
          (CacheEnabledRun /\ InsideWindow(sub)) =>
              /\ \A t \in PointsOf(sub) :
                    \/ t \in PointsToFetch
                    \/ \E i \in 1 .. Len(OverlappingAtStart) :
                          t \in PointsOf(OverlappingAtStart[i])
              /\ (\A i \in 1 .. Len(OverlappingAtStart) :
                     ~Overlaps(OverlappingAtStart[i], sub[1], sub[2]))
                  => /\ PointsOf(sub) \subseteq PointsToFetch
                     /\ CurDecision # "hit"
    /\ (CacheEnabledRun /\ EventsIn(remote, CurRs, CurRe) = <<>> /\ CurDecision = "hit") =>
          \A i \in 1 .. Len(OverlappingAtStart) :
             OverlappingAtStart[i][1] < CurRs \/ OverlappingAtStart[i][2] > CurRe

\* a run repeated the window of the run before it, whose one fetch was empty,
\* and fetched the whole window again
C39_Witness ==
    /\ hist.prev.status = "returned"
    /\ hist.prev.decision = "miss"
    /\ hist.prev.rows_processed = 0
    /\ CurDecision = "miss"
    /\ <<CurRs, CurRe>> \in hist.emptied
    /\ hist.fetchLog = <<(<<CurRs, CurRe>>)>>

\* a window whose fetch was empty in an earlier run is decided a hit, a wider
\* segment covering it
C39_WitnessCoveredLater ==
    /\ CurDecision = "hit"
    /\ <<CurRs, CurRe>> \in hist.emptied
    /\ EventsIn(remote, CurRs, CurRe) = <<>>

\* ------------------------------------------------------------------------
\* The segments a process leaves that always runs with the cache enabled
\* ------------------------------------------------------------------------
\* two ranges without a common time point
RangesDisjoint(a, b) == a[2] <= b[1] \/ b[2] <= a[1]

\* the segment directories that exist in the cache d
DirsOf(d) == {seg \in DOMAIN d : d[seg] # <<>>}

\* the segments on disk are pairwise disjoint, and the segment being written
\* had no directory, and overlapped no segment, when the run took its decision
C38_DisjointAndFresh ==
    /\ \A a \in DirsOf(disk), b \in DirsOf(disk) : a # b => RangesDisjoint(a, b)
    /\ run.pc = "write" =>
          /\ w.seg \notin DirsOf(hist.diskAtStart)
          /\ \A a \in DirsOf(hist.diskAtStart) : RangesDisjoint(a, w.seg)

\* a step that changes the cache changes only the directory of the sub-window
\* being written, which did not exist when the run took its decision
C38_WriteStep ==
    disk' # disk =>
        /\ run.pc = "write"
        /\ hist.diskAtStart[w.seg] = <<>>
        /\ \A seg \in Windows \ {w.seg} : disk'[seg] = disk[seg]

\* C38: starting from an empty cache, after any sequence of runs with the cache
\* enabled by a single process, the ranges of all segments on disk are pairwise
\* disjoint, and every sub-window a run writes goes to a segment directory that
\* did not exist when that run computed its cache decision.
C38_CachedRunsKeepSegmentsDisjoint ==
    [](C38_DisjointAndFresh) /\ [][C38_WriteStep]_vars

\* a partial run wrote the segment of a gap next to the segment an earlier run
\* left: two disjoint segments on disk
C38_Witness ==
    /\ result.status = "returned"
    /\ result.decision = "partial"
    /\ hist.written # {}
    /\ \E a \in DirsOf(hist.diskAtStart) : \E b \in hist.written :
          a # b /\ {a, b} \subseteq DirsOf(disk)

\* ------------------------------------------------------------------------
\* Segments once written
\* ------------------------------------------------------------------------
\* the time points the segments of the cache d cover
CachedPoints(d) == UNION {PointsOf(seg) : seg \in DirsOf(d)}

\* C34: over any sequence of runs (cache enabled or bypass, successful or
\* failed) a segment that exists before a run still exists after it, with the
\* same part files and the same row count; runs only add segments, so the set
\* of cached time points never shrinks.
C34_SegmentsNeverChange ==
    /\ \A seg \in DirsOf(hist.diskAtStart) :
          /\ disk[seg] = hist.diskAtStart[seg]
          /\ count_rows(disk[seg]) = count_rows(hist.diskAtStart[seg])
    /\ CachedPoints(hist.diskAtStart) \subseteq CachedPoints(disk)

\* the same for the runs with the cache enabled
C34_CachedRunsNeverChangeSegments ==
    CacheEnabledRun => C34_SegmentsNeverChange

\* no run ever removes a segment directory or a part file
C34_NothingRemoved ==
    \A seg \in DirsOf(hist.diskAtStart) : Len(disk[seg]) >= Len(hist.diskAtStart[seg])

\* a bypass run has changed the row count of a segment that existed before it
C34_BypassChangedSegment ==
    /\ CurDecision = "bypassed"
    /\ \E seg \in DirsOf(hist.diskAtStart) :
          count_rows(disk[seg]) # count_rows(hist.diskAtStart[seg])

\* ------------------------------------------------------------------------
\* De-duplication across the sub-ranges of one run
\* ------------------------------------------------------------------------
\* the rows of the segments the current run has written
RECURSIVE RowsOfSegments(_, _)
RowsOfSegments(d, segs) ==
    IF segs = <<>> THEN <<>>
    ELSE Flatten(d[Head(segs)]) \o RowsOfSegments(d, Tail(segs))

WrittenRows == RowsOfSegments(disk, SortedList(hist.written))

\* no two rows of evs carry the same (log_id, sequence number) pair
NoRepeatedPair(evs) ==
    \A i \in 1 .. Len(evs), j \in 1 .. Len(evs) :
       (i < j /\ HasPair(evs[i]) /\ HasPair(evs[j])) => PairOf(evs[i]) # PairOf(evs[j])

\* the run has ended with a result after writing the segments of its gaps
ReturnedAfterWrites ==
    /\ result.status = "returned"
    /\ result.decision \in {"miss", "partial"}
    /\ hist.written # {}

\* C36: with dedupe_events enabled an event with a given (log_id, sequence
\* number) that the fetches of two different sub-ranges of one run return is
\* written to the cache only once and counted once in rows_processed.
C36_DedupeSpansSubranges ==
    (cfg.dedupe_events /\ ReturnedAfterWrites) =>
        /\ NoRepeatedPair(WrittenRows)
        /\ result.rows_processed
              = SumRows(hist.diskAtStart, OverlappingAtStart)
                + Cardinality({PairOf(WrittenRows[i]) : i \in 1 .. Len(WrittenRows)})

\* the same within each segment the run has written
C36_DedupeWithinEachSegment ==
    (cfg.dedupe_events /\ ReturnedAfterWrites) =>
        \A seg \in hist.written : NoRepeatedPair(Flatten(disk[seg]))

\* a run with dedupe_events enabled wrote the same event into the segments of
\* two of its gaps and counted both rows
C36_SameEventInTwoSegments ==
    /\ cfg.dedupe_events
    /\ ReturnedAfterWrites
    /\ \E a \in hist.written, b \in hist.written :
          /\ a # b
          /\ \E i \in 1 .. Len(Flatten(disk[a])) : Flatten(disk[a])[i] = StrayEvent
          /\ \E i \in 1 .. Len(Flatten(disk[b])) : Flatten(disk[b])[i] = StrayEvent
    /\ result.rows_processed = SumRows(disk, OverlappingNow)

\* ------------------------------------------------------------------------
\* Segment addressing
\* ------------------------------------------------------------------------
\* the arguments of segment_dir_for_range for the windows start < end
AddrArgs == {x \in LogIds \X AddrInts \X AddrInts : x[2] < x[3]}
AddrOf(x) == segment_dir_for_range(CacheRoot, x[1], x[2], x[3])

\* the segments of the last listing
Listed == fs.listed.segments

\* once the directory of (log, start, end) exists, the listing of log holds
\* exactly one segment with that (start, end) and that path
C37_RoundTrip ==
    fs.listed.status = "returned" =>
        \A s \in AddrInts, e \in AddrInts :
           (s < e /\ PathExists(fs.dirs, AddrOf(<<fs.listed.log_id, s, e>>))) =>
               Cardinality({i \in 1 .. Len(Listed) :
                               /\ Listed[i].start_ms = s
                               /\ Listed[i].end_ms = e
                               /\ Listed[i].path = AddrOf(<<fs.listed.log_id, s, e>>)}) = 1

\* every listing returns; it holds the directories two levels under the log's
\* directory whose names spell from=<int>/to=<int> with end > start, and no other
C37_SkipsOtherDirectories ==
    fs.listed.status = "returned" =>
        LET base == JoinPath(CacheRoot, fs.listed.log_id)
        IN  /\ \A i \in 1 .. Len(Listed) :
                  /\ Listed[i].end_ms > Listed[i].start_ms
                  /\ Listed[i].path \in fs.dirs
                  /\ Len(Listed[i].path) = Len(base) + 2
                  /\ IsPathPrefix(base, Listed[i].path)
                  /\ LET f == Listed[i].path[Len(base) + 1]
                         t == Listed[i].path[Len(base) + 2]
                     IN  /\ IsPathPrefix(FromPrefix, f) /\ IsPathPrefix(ToPrefix, t)
                         /\ int_of_str(SubSeq(f, 6, Len(f))) = SomeInt(Listed[i].start_ms)
                         /\ int_of_str(SubSeq(t, 4, Len(t))) = SomeInt(Listed[i].end_ms)
            /\ \A d \in fs.dirs :
                  (/\ IsPathPrefix(base, d) /\ Len(d) = Len(base) + 2
                   /\ \E s \in AddrInts, e \in AddrInts :
                         /\ s < e
                         /\ d[Len(base) + 1] = FromPrefix \o int_str(s)
                         /\ d[Len(base) + 2] = ToPrefix \o int_str(e))
                  => \E i \in 1 .. Len(Listed) : Listed[i].path = d

\* the listing is sorted by (start_ms, end_ms, str(path))
C37_Sorted ==
    fs.listed.status = "returned" =>
        \A i \in 1 .. Len(Listed), j \in 1 .. Len(Listed) :
           i < j =>
              \/ Listed[i].start_ms < Listed[j].start_ms
              \/ /\ Listed[i].start_ms = Listed[j].start_ms
                 /\ Listed[i].end_ms < Listed[j].end_ms
              \/ /\ Listed[i].start_ms = Listed[j].start_ms
                 /\ Listed[i].end_ms = Listed[j].end_ms
                 /\ StrLess(PathStr(Listed[i].path), PathStr(Listed[j].path))

\* the paths that two different arguments give
AddressedTwice ==
    {AddrOf(x) : x \in {a \in AddrArgs : \E b \in AddrArgs : b # a /\ AddrOf(b) = AddrOf(a)}}

\* different arguments give different paths: no directory under the cache root
\* is the path of two different arguments
C37_DifferentArgsDifferentPaths == \A d \in fs.dirs : d \notin AddressedTwice

\* a log id that is one path name: no slash in it
PlainLogId(log) == \A i \in 1 .. Len(log) : log[i] # "/"

\* different arguments with log ids that are plain names give different
\* paths, and so do different windows of any one log id
C37_PlainArgsDifferentPaths ==
    \A x \in AddrArgs, y \in AddrArgs :
       (x # y /\ ((PlainLogId(x[1]) /\ PlainLogId(y[1])) \/ x[1] = y[1]))
           => AddrOf(x) # AddrOf(y)

\* C37: segment addressing round-trips: once segment_dir_for_range(root, log,
\* start, end) exists for start < end, list_segments(root, log) holds exactly one
\* segment with that (start, end) and that path; different (log, start, end) give
\* different paths; directories with non-numeric names or with end <= start
\* are skipped without error; the result is sorted by (start_ms, end_ms, path).
C37_AddressingRoundTrips ==
    /\ C37_RoundTrip
    /\ C37_DifferentArgsDifferentPaths
    /\ C37_SkipsOtherDirectories
    /\ C37_Sorted

\* the claim for log ids that are plain names
C37_AddressingOfPlainLogIds ==
    /\ C37_RoundTrip
    /\ C37_PlainArgsDifferentPaths
    /\ C37_SkipsOtherDirectories
    /\ C37_Sorted

\* the listing of one log id holds the segment directory made for another
C37_ListedUnderAnotherLogId ==
    /\ fs.listed.status = "returned"
    /\ Len(Listed) = 1
    /\ \E x \in AddrArgs :
          /\ fs.dirs = {AddrOf(x)}
          /\ x[1] # fs.listed.log_id
          /\ Listed[1].path = AddrOf(x)

\* a listing of two segments with the same (start, end), ordered by their
\* paths, next to nothing else
C37_ListedTwoPathsOfOneWindow ==
    /\ fs.listed.status = "returned"
    /\ Len(Listed) = 2
    /\ Listed[1].start_ms = Listed[2].start_ms
    /\ Listed[1].end_ms = Listed[2].end_ms

\* ------------------------------------------------------------------------
\* Two runs writing one segment
\* ------------------------------------------------------------------------
\* the parts a writer call leaves when it runs alone from the locals wr and the
\* directory parts up to its return
RECURSIVE SoloParts(_, _, _)
SoloParts(wr, conf, parts) ==
    IF DropEmptyPages(wr.pages) = <<>>
    THEN IF wr.buffer # <<>> THEN write_part(parts, wr.part_idx, wr.buffer) ELSE parts
    ELSE LET a == AcceptEvent(wr, conf)
         IN  IF FlushDue(a, conf)
             THEN SoloParts([a EXCEPT !.part_idx = @ + 1, !.buffer = <<>>], conf,
                            write_part(parts, a.part_idx, a.buffer))
             ELSE SoloParts(a, conf, parts)

\* the segment directory a single uninterrupted run leaves from the pages
CompleteWrite(pages) == SoloParts(WriterStart(WSeg, pages), cfg, <<>>)

RowCount(parts) == Len(Flatten(parts))

BothReturned == w.pc = "returned" /\ peer.w.pc = "returned"

\* C35: when two runs write the same sub-window of a log at once, their part
\* flushes interleaved in any order, the segment directory ends up holding the
\* rows of exactly one complete write: a later read-back of the segment
\* returns the row count a single uninterrupted run would have produced.
C35_RaceLeavesOneCompleteWrite ==
    BothReturned =>
        /\ disk[WSeg] \in {CompleteWrite(win), CompleteWrite(peer.win)}
        /\ read_cached_segments(disk, <<WSeg>>).total_rows
              \in {RowCount(CompleteWrite(win)), RowCount(CompleteWrite(peer.win))}

\* two runs that fetched the same events leave the directory of one run
C35_SameFetchOneCompleteWrite ==
    (BothReturned /\ win = peer.win) =>
        /\ disk[WSeg] = CompleteWrite(win)
        /\ read_cached_segments(disk, <<WSeg>>).total_rows = w.rows_processed

\* every part of the directory is a part of one of the two writes, at its index
C35_EveryPartFromOneWrite ==
    BothReturned =>
        \A i \in 1 .. Len(disk[WSeg]) :
           \/ i <= Len(CompleteWrite(win)) /\ disk[WSeg][i] = CompleteWrite(win)[i]
           \/ i <= Len(CompleteWrite(peer.win)) /\ disk[WSeg][i] = CompleteWrite(peer.win)[i]

\* both runs returned and the read-back counts fewer rows than the one and
\* more than the other would have left
C35_MixedDirectory ==
    /\ BothReturned
    /\ read_cached_segments(disk, <<WSeg>>).total_rows < w.rows_processed
    /\ read_cached_segments(disk, <<WSeg>>).total_rows > peer.w.rows_processed

\* two runs with the same fetch returned after flushing the same part twice
C35_SameFetchBothFlushed ==
    /\ BothReturned
    /\ win = peer.win
    /\ w.part_idx = 2
    /\ peer.w.part_idx = 2

====
